---- MODULE Spec2Model ----
(***************************************************************************)
(* Delivery layer of @ai-observability/client: the persistent event queue, *)
(* the HTTP client (immediate sends, batch buffer, flush, queue drain) and *)
(* the tracking functions that feed it; then the session id, the severity *)
(* rule of trackServiceError and the user id resolution.  The client runs  *)
(* in a browser (window is defined).                                       *)
(*                                                                         *)
(* JavaScript runs each handler to its next await without interruption;    *)
(* the actions below are those run-to-completion sections.  The only       *)
(* suspension points are the fetch() calls and the backoff sleep.          *)
(***************************************************************************)
EXTENDS Integers, Sequences, FiniteSets, TLC

----------------------------------------------------------------------------
(* Bounds of the exploration *)

MaxSends == 2          \* send()/track*() calls that reach the network path
MaxPasses == 2         \* processQueue() passes that may overlap
batchSize == 2         \* config.batchSize as configured by the host
retryAttempts == 2     \* config.retryAttempts as configured by the host

(* Program constants *)

maxQueueSize == 100    \* EventQueue.maxQueueSize
EvictPercent == 25     \* Math.floor(maxQueueSize * 0.25)
QuotaKeep == 50        \* this.queue.slice(-50)
DrainLimit == 10       \* queuedEvents.slice(0, 10)
DeliveredCap == 2      \* the delivery tally saturates here
MaxClock == 62         \* minutes of wall-clock time explored
MaxMint == 3           \* session ids generated
MaxStatus == 600       \* largest status code handed to trackServiceError
MaxUserKeys == 2       \* conventional user objects present in localStorage
MaxConfigKeys == 2     \* keys and sub-keys the host supplies in one configuration
MaxHooks == 3          \* components that use useAutoTracking

----------------------------------------------------------------------------
VARIABLES
  testMode,      \* config.testMode
  collector,     \* environment: what the collector answers right now
  queue,         \* EventQueue.queue, as the sequence of the items' ids
  item,          \* the QueuedEvent objects ever created, by id
  storage,       \* localStorage['observability_event_queue']
  batch,         \* HttpClient.batch
  isProcessing,  \* HttpClient.isProcessing
  flushing,      \* the running flushBatch(): its copied events and position
  imm,           \* send(..., immediate) calls awaiting their fetch
  pass,          \* the processQueue() invocations
  nextSerial,    \* serial number of the next payload handed to send()
  delivered,     \* per payload: 2xx responses received (saturating)
  dropped,       \* ids removed by a drain pass because of max retries
  ev,            \* what the last step did (observation only)
  sessionStore,  \* sessionStorage: the session id and last-activity keys
  now,           \* Date.now(), in minutes
  minted,        \* how many session ids have been generated
  sessionLog,    \* the previous session access (observation only)
  sev,           \* what the last session call did (observation only)
  statusCode,    \* error?.response?.status handed to trackServiceError
  severity,      \* the severity trackServiceError derived from it
  userStore,     \* localStorage: the keys the user id is looked up under
  uev,           \* what the last user id call did (observation only)
  globalConfig,  \* core/config.ts: the effective configuration
  userConfig,    \* the configuration object the host passes next
  cev,           \* what the last configuration call did (observation only)
  cyclic,        \* the payloads (by serial) that JSON.stringify throws on
  old,           \* the HttpClient instance that initHttpClient() replaced
  hooks          \* the components that use useAutoTracking, mounted or not

qvars == <<queue, item, storage>>
cvars == <<batch, isProcessing, flushing, imm>>
svars == <<sessionStore, now, minted, sessionLog, sev>>
fvars == <<statusCode, severity>>
uvars == <<userStore, uev>>
\* what the delivery layer does not touch
gvars == <<globalConfig, userConfig, cev>>
pvars == <<cyclic>>
ivars == <<old, hooks>>
xvars == <<svars, fvars, uvars, gvars, pvars, ivars>>
\* the delivery layer
hvars == <<testMode, collector, queue, item, storage, batch,
           isProcessing, flushing, imm, pass, nextSerial, delivered, dropped, ev>>
vars == <<hvars, xvars>>

Passes == 1..MaxPasses

----------------------------------------------------------------------------
(* Small helpers *)

Range(s) == {s[i] : i \in 1..Len(s)}

\* variant: the oldest n items are kept instead of the most recent
SliceOldest(s, n) == IF Len(s) <= n THEN s ELSE SubSeq(s, 1, n)

\* Array.prototype.slice(-n)
SliceLast(s, n) == IF Len(s) <= n THEN s ELSE SubSeq(s, Len(s) - n + 1, Len(s))

\* variant: the newest n items are taken instead of the oldest
SliceNewest(s, n) == IF Len(s) <= n THEN s ELSE SubSeq(s, Len(s) - n + 1, Len(s))

\* Array.prototype.slice(0, n)
SliceFirst(s, n) == IF Len(s) <= n THEN s ELSE SubSeq(s, 1, n)

\* variant: the filter keeps the item it should discard
Only(s, id) == SelectSeq(s, LAMBDA e : e = id)

\* Array.prototype.filter(e => e.id !== id)
Without(s, id) == SelectSeq(s, LAMBDA e : e # id)

----------------------------------------------------------------------------
(* The collector and the errors fetch() can reject with *)

Endpoints == {"/events", "/ui-events", "/errors/ui", "/errors/services"}

\* String.prototype.includes for the three needles the client looks for
Includes(message, needle) ==
  CASE message = "Failed to fetch" -> needle \in {"Failed to fetch", "fetch"}
    [] message = "NetworkError when attempting to fetch resource." -> needle = "fetch"
    [] message = "Request blocked by CORS policy" -> needle = "CORS"
    [] OTHER -> FALSE

OkResponse == [ok |-> TRUE, cause |-> "none", name |-> "none", message |-> "none"]

\* response.ok false: sendImmediate throws new Error(`HTTP ${status}: ...`)
HttpError == [ok |-> FALSE, cause |-> "http", name |-> "Error",
              message |-> "HTTP 500: Internal Server Error"]

\* fetch() rejected: no response was obtained.  cause is what really happened,
\* name/message what the runtime reports.
NetworkErrors == {
  [ok |-> FALSE, cause |-> "cors", name |-> "TypeError", message |-> "Failed to fetch"],
  [ok |-> FALSE, cause |-> "cors", name |-> "Error", message |-> "Request blocked by CORS policy"],
  [ok |-> FALSE, cause |-> "refused", name |-> "TypeError", message |-> "Failed to fetch"],
  [ok |-> FALSE, cause |-> "refused", name |-> "TypeError",
   message |-> "NetworkError when attempting to fetch resource."],
  [ok |-> FALSE, cause |-> "refused", name |-> "Error", message |-> "Service down"] }

\* JSON.stringify(payload) throws (a circular structure, a BigInt): fetch()
\* is never called
SerializeError == [ok |-> FALSE, cause |-> "serialize", name |-> "TypeError",
                   message |-> "Converting circular structure to JSON"]

\* what an attempt can end with while the collector is up, answers with
\* errors, is down, or ("flaky") when nothing is known about it
FetchOutcomes(mode) ==
  CASE mode = "up" -> {OkResponse}
    [] mode = "error" -> {HttpError}
    [] mode = "down" -> NetworkErrors
    [] OTHER -> {OkResponse, HttpError} \cup NetworkErrors

----------------------------------------------------------------------------
(* EventQueue *)

RemoveCount == (maxQueueSize * EvictPercent) \div 100

\* JSON.stringify(this.queue)
Serialize(q, it) ==
  [i \in 1..Len(q) |-> [id |-> q[i], type |-> it[q[i]].type,
                        endpoint |-> it[q[i]].endpoint,
                        payload |-> it[q[i]].payload,
                        retries |-> it[q[i]].retries]]

\* a missing key (getItem returns null); otherwise the stored JSON array
Absent == [present |-> FALSE, value |-> <<>>]

Stored(arr) == [present |-> TRUE, value |-> arr]

SaveOutcomes == {"ok", "quotaOnce", "quotaTwice", "error"}

\* variant: the second write persists the most recent items but the queue in
\* memory keeps all of them
saveToStorageUnsliced(q, it, st, so) ==
  CASE so = "ok" -> [queue |-> q, storage |-> Stored(Serialize(q, it))]
    [] so = "quotaOnce" ->
         [queue |-> q,
          storage |-> Stored(Serialize(SliceLast(q, QuotaKeep), it))]
    [] so = "quotaTwice" -> [queue |-> <<>>, storage |-> Absent]
    [] OTHER -> [queue |-> q, storage |-> st]

\* saveToStorage(): the queue and the stored value it leaves behind
saveToStorage(q, it, st, so) ==
  CASE so = "ok" -> [queue |-> q, storage |-> Stored(Serialize(q, it))]
    [] so = "quotaOnce" ->
         [queue |-> SliceLast(q, QuotaKeep),
          storage |-> Stored(Serialize(SliceLast(q, QuotaKeep), it))]
    [] so = "quotaTwice" -> [queue |-> <<>>, storage |-> Absent]
    [] OTHER -> [queue |-> q, storage |-> st]

\* variant: the bound is tested with > instead of >=
TrimLate(q) ==
  IF Len(q) > maxQueueSize THEN SubSeq(q, RemoveCount + 1, Len(q)) ELSE q

\* variant: the newest items are spliced away instead of the oldest
TrimNewest(q) ==
  IF Len(q) >= maxQueueSize THEN SubSeq(q, 1, Len(q) - RemoveCount) ELSE q

\* the capacity trim at the head of enqueue()
Trim(q) ==
  IF Len(q) >= maxQueueSize THEN SubSeq(q, RemoveCount + 1, Len(q)) ELSE q

\* enqueue(): id is the fresh id, rec the new object
enqueue(id, rec, so) ==
  LET it == (id :> rec) @@ item
      r == saveToStorage(Append(Trim(queue), id), it, storage, so)
  IN /\ item' = it
     /\ queue' = r.queue
     /\ storage' = r.storage

\* variant: the item is kept and the queue saved as it is
removeKeeps(id, so) ==
  LET r == saveToStorage(queue, item, storage, so)
  IN /\ item' = item
     /\ queue' = r.queue
     /\ storage' = r.storage

\* remove()
remove(id, so) ==
  LET r == saveToStorage(Without(queue, id), item, storage, so)
  IN /\ item' = item
     /\ queue' = r.queue
     /\ storage' = r.storage

\* a bookkeeping that would count a failed attempt against every queued item
incrementRetryAll(id, so) ==
  LET it == [j \in DOMAIN item |->
               IF j \in Range(queue) THEN [item[j] EXCEPT !.retries = @ + 1]
               ELSE item[j]]
      r == saveToStorage(queue, it, storage, so)
  IN /\ item' = it
     /\ queue' = r.queue
     /\ storage' = r.storage

\* incrementRetry(): only an item still in the queue is found
incrementRetry(id, so) ==
  IF id \in Range(queue)
  THEN LET it == [item EXCEPT ![id].retries = @ + 1]
           r == saveToStorage(queue, it, storage, so)
       IN /\ item' = it
          /\ queue' = r.queue
          /\ storage' = r.storage
  ELSE so = "ok" /\ UNCHANGED qvars

\* loadFromStorage(): JSON.parse of the stored array
LoadedQueue(st) == [i \in 1..Len(st.value) |-> st.value[i].id]

LoadedItems(st) ==
  [id \in {st.value[i].id : i \in 1..Len(st.value)} |->
     LET i == CHOOSE j \in 1..Len(st.value) : st.value[j].id = id
     IN [type |-> st.value[i].type, endpoint |-> st.value[i].endpoint,
         payload |-> st.value[i].payload, retries |-> st.value[i].retries]]

----------------------------------------------------------------------------
(* HttpClient.sendImmediate *)

\* client.ts:219-221
isCorsError(e) ==
  \/ Includes(e.message, "CORS")
  \/ Includes(e.message, "Failed to fetch")
  \/ (e.name = "TypeError" /\ Includes(e.message, "fetch"))

\* variant: the CORS classification is not consulted
ShouldQueueAlways(queueOnFailure, e) == queueOnFailure

\* client.ts:223
ShouldQueue(queueOnFailure, e) == queueOnFailure /\ ~isCorsError(e)

\* client.ts:225-232; each contract endpoint includes exactly its own needle
EventType(endpoint) ==
  CASE endpoint = "/ui-events" -> "ui_event"
    [] endpoint = "/errors/ui" -> "ui_error"
    [] endpoint = "/errors/services" -> "service_error"
    [] OTHER -> "event"

Delivered(p) == IF p \in DOMAIN delivered THEN delivered[p] ELSE 0

\* a 2xx response for payload p arrived
Tally(p) ==
  delivered' = (p :> IF Delivered(p) < DeliveredCap THEN Delivered(p) + 1
                      ELSE DeliveredCap) @@ delivered

\* variant: a failed attempt is logged and nothing is queued
sendImmediateDoneForgets(endpoint, p, queueOnFailure, o, so) ==
  /\ so = "ok"
  /\ IF o.ok THEN Tally(p) ELSE UNCHANGED delivered
  /\ UNCHANGED qvars

\* what sendImmediate does once its fetch has settled with outcome o
sendImmediateDone(endpoint, p, queueOnFailure, o, so) ==
  IF o.ok
  THEN so = "ok" /\ Tally(p) /\ UNCHANGED qvars
  ELSE /\ UNCHANGED delivered
       /\ IF ShouldQueue(queueOnFailure, o)
          THEN enqueue(p, [type |-> EventType(endpoint), endpoint |-> endpoint,
                           payload |-> p, retries |-> 0], so)
          ELSE so = "ok" /\ UNCHANGED qvars

----------------------------------------------------------------------------
\* to: the endpoint the request for p is POSTed to, when the step issues it
NoEv == [op |-> "none", http |-> FALSE, res |-> "none", p |-> 0, to |-> "none",
         cause |-> "none", cors |-> FALSE, qof |-> FALSE, save |-> "none",
         sendCors |-> FALSE, wait |-> 0]

IdlePass == [pc |-> "idle", snap |-> <<>>, idx |-> 0]

IdleFlush == [events |-> <<>>, idx |-> 0]

\* no synchronous section of a drain pass is still running
SyncFree == \A k \in Passes : pass[k].pc # "next"

\* what a step that saved the queue reports
SaveSeen(did, so) == IF did THEN so ELSE "none"

----------------------------------------------------------------------------
(* core/session.ts *)

SessionKey == "observability_session_id"

ActivityKey == "observability_session_last_activity"

\* the documented inactivity ceiling, in minutes
SessionTimeout == 30

\* sessionStorage with nothing of the client in it
EmptyStore == [k \in {} |-> 0]

\* getItem(key) !== null
Has(store, key) == key \in DOMAIN store

\* setItem(key, value)
SetItem(store, key, value) == (key :> value) @@ store

\* how sessionStorage behaves during one call: it works, reading throws
\* (storage blocked), or writing throws (quota, private mode)
StorageOutcomes == {"ok", "getThrows", "setThrows"}

Threw(store) == [threw |-> TRUE, id |-> 0, store |-> store, made |-> FALSE]

\* `session_${Date.now()}_${random}`: the n-th id generated, taken never to
\* repeat an earlier one
NewSessionId(n) == n

\* variant: the stored id is ignored and a new one generated on every call
getSessionIdAlwaysNew(store, n, so) ==
  IF so # "ok" THEN Threw(store)
  ELSE [threw |-> FALSE, id |-> NewSessionId(n),
        store |-> SetItem(store, SessionKey, NewSessionId(n)), made |-> TRUE]

\* getSessionId(): the result, the store it leaves, whether an id was generated
getSessionId(store, n, so) ==
  IF so = "getThrows" THEN Threw(store)
  ELSE IF Has(store, SessionKey)
  THEN [threw |-> FALSE, id |-> store[SessionKey], store |-> store, made |-> FALSE]
  ELSE IF so = "setThrows" THEN [Threw(store) EXCEPT !.made = TRUE]
  ELSE [threw |-> FALSE, id |-> NewSessionId(n),
        store |-> SetItem(store, SessionKey, NewSessionId(n)), made |-> TRUE]

\* variant: reset hands back the session that is already stored
resetSessionKeeps(store, n, so) == getSessionId(store, n, so)

\* resetSession()
resetSession(store, n, so) ==
  IF so = "setThrows" THEN [Threw(store) EXCEPT !.made = TRUE]
  ELSE [threw |-> FALSE, id |-> NewSessionId(n),
        store |-> SetItem(store, SessionKey, NewSessionId(n)), made |-> TRUE]

NoSev == [op |-> "none", res |-> "none", id |-> 0]

\* the last call that returned (op, at, id), whether storage was emptied since
\* (cleared), when the last call was made (last), the id of the last
\* resetSession() not followed by a clear (resetId) and whether every call
\* since it came less than SessionTimeout minutes after the call before (close)
NoAccess == [op |-> "none", at |-> 0, id |-> 0, cleared |-> FALSE,
             last |-> 0, resetId |-> 0, close |-> FALSE]

\* what a session call with result r leaves in sessionStorage
SessionEffect(r) ==
  /\ r.made => minted < MaxMint
  /\ sessionStore' = r.store
  /\ minted' = IF r.made THEN minted + 1 ELSE minted

\* one call of getSessionId() or resetSession() by the host
SessionCall(op, r) ==
  /\ SessionEffect(r)
  /\ sev' = [op |-> op, res |-> IF r.threw THEN "threw" ELSE "returned", id |-> r.id]
  /\ sessionLog' =
       LET close == sessionLog.close /\ now - sessionLog.last < SessionTimeout
       IN  IF r.threw THEN [sessionLog EXCEPT !.last = now, !.close = close]
           ELSE IF op = "resetSession"
           THEN [op |-> op, at |-> now, id |-> r.id, cleared |-> FALSE,
                 last |-> now, resetId |-> r.id, close |-> TRUE]
           ELSE [op |-> op, at |-> now, id |-> r.id, cleared |-> FALSE,
                 last |-> now, resetId |-> sessionLog.resetId, close |-> close]
  /\ UNCHANGED <<now, hvars, fvars, uvars, gvars, pvars, ivars>>

GetSessionId(so) == SessionCall("getSessionId", getSessionId(sessionStore, minted + 1, so))

ResetSession(so) == SessionCall("resetSession", resetSession(sessionStore, minted + 1, so))

\* the gaps between two calls that are explored, in minutes
Gaps == {29, 31}

\* time passes
Advance(d) ==
  /\ now + d <= MaxClock
  /\ now' = now + d
  /\ sev' = [NoSev EXCEPT !.op = "advance"]
  /\ UNCHANGED <<sessionStore, minted, sessionLog, hvars, fvars, uvars, gvars, pvars, ivars>>

\* the host (or the browser, for a new tab) empties sessionStorage
ClearSession ==
  /\ sessionStore # EmptyStore
  /\ sessionStore' = EmptyStore
  /\ sessionLog' = [sessionLog EXCEPT !.cleared = TRUE, !.resetId = 0]
  /\ sev' = [NoSev EXCEPT !.op = "clear"]
  /\ UNCHANGED <<now, minted, hvars, fvars, uvars, gvars, pvars, ivars>>

SessionInit ==
  /\ sessionStore = EmptyStore
  /\ now = 0
  /\ minted = 0
  /\ sessionLog = NoAccess
  /\ sev = NoSev

\* a tab in which an earlier call has already stored a session id
SessionStarted ==
  /\ sessionStore = SetItem(EmptyStore, SessionKey, NewSessionId(1))
  /\ now = 0
  /\ minted = 1
  /\ sessionLog = NoAccess
  /\ sev = NoSev

----------------------------------------------------------------------------
(* HttpClient.send and the tracking functions *)

\* variant: the buffer is copied but not emptied
flushStartKeeps(events) ==
  /\ isProcessing' = TRUE
  /\ flushing' = [events |-> events, idx |-> 1]
  /\ batch' = events

\* flushBatch() past its guard: copies the buffer and issues the first fetch
flushStart(events) ==
  /\ isProcessing' = TRUE
  /\ flushing' = [events |-> events, idx |-> 1]
  /\ batch' = <<>>

\* variant: the buffer has to grow past batchSize
BatchFullLate(b) == Len(b) > batchSize

\* client.ts:181, this.batch.length >= config.batchSize
BatchFull(b) == Len(b) >= batchSize

\* the body of send() after the testMode check
sendLive(op, endpoint, queueOnFailure, immediate) ==
  /\ nextSerial <= MaxSends
  /\ nextSerial' = nextSerial + 1
  /\ IF immediate
     THEN /\ imm' = imm \cup {[p |-> nextSerial, endpoint |-> endpoint,
                               qof |-> queueOnFailure]}
          /\ UNCHANGED <<batch, isProcessing, flushing>>
          /\ ev' = [NoEv EXCEPT !.op = op, !.http = TRUE, !.p = nextSerial,
                                !.to = endpoint, !.qof = queueOnFailure]
     ELSE LET b == Append(batch, [endpoint |-> endpoint, payload |-> nextSerial])
          IN /\ IF BatchFull(b) /\ ~isProcessing
                THEN /\ flushStart(b)
                     /\ ev' = [NoEv EXCEPT !.op = op, !.http = TRUE,
                                      !.res = "resolved", !.p = nextSerial,
                                      !.qof = queueOnFailure]
                ELSE /\ batch' = b
                     /\ UNCHANGED <<isProcessing, flushing>>
                     /\ ev' = [NoEv EXCEPT !.op = op, !.res = "resolved",
                                      !.p = nextSerial, !.qof = queueOnFailure]
             /\ UNCHANGED imm

\* variant: the testMode early return is missing
sendIgnoringTestMode(op, endpoint, queueOnFailure, immediate) ==
  sendLive(op, endpoint, queueOnFailure, immediate)

send(op, endpoint, queueOnFailure, immediate) ==
  IF testMode
  THEN /\ ev' = [NoEv EXCEPT !.op = op, !.res = "resolved"]
       /\ UNCHANGED <<cvars, nextSerial>>
  ELSE sendLive(op, endpoint, queueOnFailure, immediate)

Send(endpoint, queueOnFailure, immediate) ==
  /\ SyncFree
  /\ send("send", endpoint, queueOnFailure, immediate)
  /\ UNCHANGED <<testMode, collector, qvars, pass, delivered, dropped, xvars>>

TrackingEndpoint(fn) ==
  CASE fn = "trackEvent" -> "/events"
    [] fn = "trackUIEvent" -> "/ui-events"
    [] fn = "trackUIError" -> "/errors/ui"
    [] OTHER -> "/errors/services"

TrackingFunctions == {"trackEvent", "trackUIEvent", "trackUIError", "trackServiceError"}

\* getSessionId() as the tracking functions call it: sessionStorage.getItem /
\* setItem are not guarded, so a throwing storage makes the call throw
getSessionIdThrows(sessionStorageWorks) == ~sessionStorageWorks

\* trackEvent / trackUIEvent / trackUIError / trackServiceError: the session
\* id is read (and generated, if there is none) before the payload is sent
Track(fn, sessionStorageWorks) ==
  /\ SyncFree
  /\ IF getSessionIdThrows(sessionStorageWorks)
     THEN /\ ev' = [NoEv EXCEPT !.op = fn, !.res = "rejected"]
          /\ UNCHANGED <<cvars, nextSerial, sessionStore, minted>>
     ELSE /\ SessionEffect(getSessionId(sessionStore, minted + 1, "ok"))
          /\ send(fn, TrackingEndpoint(fn), TRUE, FALSE)
  /\ UNCHANGED <<testMode, collector, qvars, pass, delivered, dropped>>
  /\ UNCHANGED <<now, sessionLog, sev, fvars, uvars, gvars, pvars, ivars>>

\* the setInterval callback of startBatchProcessor
FlushTick ==
  /\ SyncFree
  /\ ~isProcessing /\ batch # <<>>
  /\ flushStart(batch)
  /\ ev' = [NoEv EXCEPT !.op = "flushTick", !.http = TRUE]
  /\ UNCHANGED <<testMode, collector, qvars, imm, pass, nextSerial, delivered,
                 dropped, xvars>>

\* variant: the loop ends without the finally block that clears the flag
FlushDoneSticks(o, so) ==
  /\ SyncFree
  /\ flushing.idx > 0
  /\ LET e == flushing.events[flushing.idx]
         more == flushing.idx < Len(flushing.events)
     IN /\ sendImmediateDone(e.endpoint, e.payload, TRUE, o, so)
        /\ IF more
           THEN flushing' = [flushing EXCEPT !.idx = @ + 1]
           ELSE flushing' = IdleFlush
        /\ UNCHANGED isProcessing
        /\ ev' = [NoEv EXCEPT !.op = "flushDone", !.http = more, !.p = e.payload,
                              !.cause = o.cause, !.cors = ~o.ok /\ isCorsError(o),
                              !.qof = TRUE,
                              !.save = SaveSeen(~o.ok /\ ShouldQueue(TRUE, o), so)]
  /\ UNCHANGED <<testMode, collector, batch, imm, pass, nextSerial, dropped, xvars>>

\* the fetch of the flush's current event settles; the loop moves on
FlushDone(o, so) ==
  /\ SyncFree
  /\ flushing.idx > 0
  /\ LET e == flushing.events[flushing.idx]
         more == flushing.idx < Len(flushing.events)
     IN /\ sendImmediateDone(e.endpoint, e.payload, TRUE, o, so)
        /\ IF more
           THEN flushing' = [flushing EXCEPT !.idx = @ + 1] /\ UNCHANGED isProcessing
           ELSE flushing' = IdleFlush /\ isProcessing' = FALSE
        /\ ev' = [NoEv EXCEPT !.op = "flushDone", !.http = more, !.p = e.payload,
                              !.cause = o.cause, !.cors = ~o.ok /\ isCorsError(o),
                              !.qof = TRUE,
                              !.save = SaveSeen(~o.ok /\ ShouldQueue(TRUE, o), so)]
  /\ UNCHANGED <<testMode, collector, batch, imm, pass, nextSerial, dropped, xvars>>

\* the fetch of an immediate send() settles and the call returns
SendDone(c, o, so) ==
  /\ SyncFree
  /\ c \in imm
  /\ sendImmediateDone(c.endpoint, c.p, c.qof, o, so)
  /\ imm' = imm \ {c}
  /\ ev' = [NoEv EXCEPT !.op = "sendDone", !.res = "resolved", !.p = c.p,
                        !.cause = o.cause, !.cors = ~o.ok /\ isCorsError(o),
                        !.qof = c.qof,
                        !.save = SaveSeen(~o.ok /\ ShouldQueue(c.qof, o), so)]
  /\ UNCHANGED <<testMode, collector, batch, isProcessing, flushing, pass,
                 nextSerial, dropped, xvars>>

\* checkHealth(): GET /health, true iff a 2xx came back
CheckHealth ==
  /\ SyncFree
  /\ ev' = [NoEv EXCEPT !.op = "checkHealth", !.http = TRUE,
                        !.res = IF collector = "up" THEN "true" ELSE "false"]
  /\ UNCHANGED <<testMode, collector, qvars, cvars, pass, nextSerial,
                 delivered, dropped, xvars>>

----------------------------------------------------------------------------
(* HttpClient.processQueue *)

\* client.ts:303-304
isCorsErrorDrain(e) ==
  Includes(e.message, "CORS") \/ Includes(e.message, "Failed to fetch")

\* variant: one second whatever the count
BackoffFlat(retries) == 1

\* client.ts:314: Math.pow(2, event.retries), in seconds; event is the object
\* of the snapshot, read after incrementRetry has run
Backoff(retries) == 2 ^ retries

\* client.ts:291
MaxRetriesReached(retries) == retries >= retryAttempts

\* processQueue() up to its loop: snapshot of the first items
ProcessQueue(k) ==
  /\ SyncFree
  /\ pass[k].pc = "idle"
  /\ IF queue = <<>>
     THEN UNCHANGED pass
     ELSE pass' = [pass EXCEPT ![k] = [pc |-> "next",
                                       snap |-> SliceFirst(queue, DrainLimit),
                                       idx |-> 1]]
  /\ ev' = [NoEv EXCEPT !.op = "processQueue"]
  /\ UNCHANGED <<testMode, collector, qvars, cvars, nextSerial, delivered,
                 dropped, xvars>>

\* one turn of the for loop, up to the fetch it issues
Visit(k, so) ==
  /\ pass[k].pc = "next"
  /\ IF pass[k].idx > Len(pass[k].snap)
     THEN /\ so = "ok"
          /\ pass' = [pass EXCEPT ![k] = IdlePass]
          /\ ev' = [NoEv EXCEPT !.op = "drainEnd"]
          /\ UNCHANGED <<qvars, dropped>>
     ELSE LET e == pass[k].snap[pass[k].idx]
          IN IF MaxRetriesReached(item[e].retries)
             THEN /\ remove(e, so)
                  /\ dropped' = dropped \cup {e}
                  /\ pass' = [pass EXCEPT ![k].idx = @ + 1]
                  /\ ev' = [NoEv EXCEPT !.op = "drainDrop", !.p = item[e].payload,
                                        !.save = so]
             ELSE /\ so = "ok"
                  /\ pass' = [pass EXCEPT ![k].pc = "fetch"]
                  /\ ev' = [NoEv EXCEPT !.op = "drainFetch", !.http = TRUE,
                                        !.p = item[e].payload,
                                        !.to = item[e].endpoint]
                  /\ UNCHANGED <<qvars, dropped>>
  /\ UNCHANGED <<testMode, collector, cvars, nextSerial, delivered, xvars>>

\* the fetch of the pass's current item settles
DrainDone(k, o, so) ==
  /\ SyncFree
  /\ pass[k].pc = "fetch"
  /\ LET e == pass[k].snap[pass[k].idx]
     IN /\ IF o.ok
           THEN /\ Tally(item[e].payload)
                /\ remove(e, so)
                /\ pass' = [pass EXCEPT ![k].pc = "next", ![k].idx = @ + 1]
           ELSE /\ UNCHANGED delivered
                /\ IF isCorsErrorDrain(o)
                   THEN /\ remove(e, so)
                        /\ pass' = [pass EXCEPT ![k].pc = "next", ![k].idx = @ + 1]
                   ELSE /\ incrementRetry(e, so)
                        /\ pass' = [pass EXCEPT ![k].pc = "sleep"]
        /\ ev' = [NoEv EXCEPT !.op = "drainDone", !.p = item[e].payload,
                              !.cause = o.cause,
                              !.cors = ~o.ok /\ isCorsErrorDrain(o),
                              !.sendCors = ~o.ok /\ isCorsError(o),
                              !.wait = IF o.ok \/ isCorsErrorDrain(o) THEN 0
                                       ELSE Backoff(item'[e].retries),
                              !.save = SaveSeen(e \in Range(queue) \/ o.ok
                                                \/ isCorsErrorDrain(o), so)]
  /\ UNCHANGED <<testMode, collector, cvars, nextSerial, dropped, xvars>>

\* the backoff timer of a pass fires
Wake(k) ==
  /\ SyncFree
  /\ pass[k].pc = "sleep"
  /\ pass' = [pass EXCEPT ![k].pc = "next", ![k].idx = @ + 1]
  /\ ev' = [NoEv EXCEPT !.op = "wake"]
  /\ UNCHANGED <<testMode, collector, qvars, cvars, nextSerial, delivered,
                 dropped, xvars>>

----------------------------------------------------------------------------
(* tracking/errors.ts: the severity of a service error *)

\* error?.response?.status: undefined, or a number
NoStatus == [present |-> FALSE, code |-> 0]

Status(n) == [present |-> TRUE, code |-> n]

StatusCodes == {NoStatus} \cup {Status(n) : n \in 0..MaxStatus}

\* if (statusCode): undefined and 0 are falsy
HasStatus(st) == st.present /\ st.code # 0

\* variant: 404 is not singled out among the client errors
SeverityNo404(st) ==
  IF HasStatus(st)
  THEN IF st.code >= 500 THEN "ERROR"
       ELSE IF st.code >= 400 THEN "WARNING"
       ELSE "INFO"
  ELSE "ERROR"

\* errors.ts:109-124
Severity(st) ==
  IF HasStatus(st)
  THEN IF st.code >= 500 THEN "ERROR"
       ELSE IF st.code >= 400
            THEN IF st.code = 404 THEN "INFO" ELSE "WARNING"
            ELSE "INFO"
  ELSE "ERROR"

\* trackServiceError(error) up to the severity it derives
DeriveSeverity ==
  /\ severity = "none"
  /\ severity' = Severity(statusCode)
  /\ UNCHANGED <<statusCode, hvars, svars, uvars, gvars, pvars, ivars>>

\* the next service error arrives
NextError(st) ==
  /\ severity # "none"
  /\ statusCode' = st
  /\ severity' = "none"
  /\ UNCHANGED <<hvars, svars, uvars, gvars, pvars, ivars>>

SeverityInit == statusCode = NoStatus /\ severity = "none"

----------------------------------------------------------------------------
(* utils/user.ts *)

\* localStorage.getItem(key): null, or a string
Null == [has |-> FALSE, text |-> ""]

Str(t) == [has |-> TRUE, text |-> t]

UserIdKey == "observability_user_id"

\* getItem(key) of a key holding a plain string
GetText(store, key) == IF key \in DOMAIN store THEN store[key] ELSE Null

\* removeItem(key)
RemoveItem(store, key) == [k \in DOMAIN store \ {key} |-> store[k]]

\* number | null, as the functions return it
NoUser == [null |-> TRUE, n |-> 0]

User(n) == [null |-> FALSE, n |-> n]

\* the ids the host passes to setUserId
UserIds == {0, 5}

\* Number.prototype.toString for those ids
NumberToString(n) == CASE n = 0 -> "0" [] n = 5 -> "5" [] n = 7 -> "7" [] OTHER -> "8"

\* parseInt(text, 10) for the strings found in storage: the leading integer,
\* NaN when there is none ("abc", "")
ParseInt(t) ==
  CASE t = "0" -> [nan |-> FALSE, n |-> 0]
    [] t = "5" -> [nan |-> FALSE, n |-> 5]
    [] t = "7" -> [nan |-> FALSE, n |-> 7]
    [] t = "8" -> [nan |-> FALSE, n |-> 8]
    [] t = "7x" -> [nan |-> FALSE, n |-> 7]
    [] OTHER -> [nan |-> TRUE, n |-> 0]

\* the keys getUserId() looks under, in its order
Patterns == <<"user", "currentUser", "auth_user", "user_data", "userInfo">>

\* a field of a parsed user object
Undefined == [type |-> "undefined", n |-> 0]

Number(n) == [type |-> "number", n |-> n]

Text == [type |-> "string", n |-> 0]

\* what is stored under a pattern key: nothing, text that is not JSON, or
\* an object with its id and user_id fields
NoJson == [json |-> "absent", id |-> Undefined, user_id |-> Undefined]

BadJson == [json |-> "invalid", id |-> Undefined, user_id |-> Undefined]

Object(id, uid) == [json |-> "object", id |-> id, user_id |-> uid]

\* getItem(pattern) and JSON.parse of it
GetJson(store, key) == IF key \in DOMAIN store THEN store[key] ELSE NoJson

\* user?.id && typeof user.id === 'number'
IsNumberField(f) == f.type = "number" /\ f.n # 0

\* the for loop of getUserId() from pattern k on
RECURSIVE FromPatterns(_, _)
FromPatterns(store, k) ==
  IF k > Len(Patterns) THEN NoUser
  ELSE LET u == GetJson(store, Patterns[k])
       IN IF u.json = "object" /\ IsNumberField(u.id) THEN User(u.id.n)
          ELSE IF u.json = "object" /\ IsNumberField(u.user_id) THEN User(u.user_id.n)
          ELSE FromPatterns(store, k + 1)

\* getItem('user_id') || getItem('userId'), then parseInt
FromDirect(store) ==
  LET a == GetText(store, "user_id")
      t == IF a.has /\ a.text # "" THEN a ELSE GetText(store, "userId")
  IN IF t.has /\ t.text # "" /\ ~ParseInt(t.text).nan
     THEN User(ParseInt(t.text).n) ELSE NoUser

\* getUserId()
getUserId(store) ==
  IF ~FromPatterns(store, 1).null THEN FromPatterns(store, 1) ELSE FromDirect(store)

\* how localStorage behaves during one call: it works, or getItem throws
\* (access to storage is blocked)
ReadOutcomes == {"ok", "getThrows"}

\* the try block of getUserId(): it completes with a value, or throws
getUserIdTry(store, so) ==
  IF so = "getThrows" THEN [threw |-> TRUE, value |-> NoUser]
  ELSE [threw |-> FALSE, value |-> getUserId(store)]

\* variant: the outer catch is missing
getUserIdRethrow(r) == r

\* catch (e) { } return null
getUserIdCatch(r) == IF r.threw THEN [threw |-> FALSE, value |-> NoUser] ELSE r

\* variant: the heuristics are consulted before the id set by setUserId
getObservabilityUserIdLast(store) ==
  IF ~getUserId(store).null THEN getUserId(store)
  ELSE LET t == GetText(store, UserIdKey)
       IN IF t.has /\ ~ParseInt(t.text).nan THEN User(ParseInt(t.text).n) ELSE NoUser

\* getObservabilityUserId()
getObservabilityUserId(store) ==
  LET t == GetText(store, UserIdKey)
  IN IF t.has /\ t.text # "" /\ ~ParseInt(t.text).nan
     THEN User(ParseInt(t.text).n)
     ELSE getUserId(store)

\* setUserId(userId): null removes the key
setUserId(store, u) ==
  IF u.null THEN RemoveItem(store, UserIdKey)
  ELSE SetItem(store, UserIdKey, Str(NumberToString(u.n)))

\* read: how localStorage behaved during the call; threw: the call threw
NoUev == [op |-> "none", arg |-> NoUser, res |-> NoUser, read |-> "ok",
          threw |-> FALSE]

SetUserId(u) ==
  /\ userStore' = setUserId(userStore, u)
  /\ uev' = [NoUev EXCEPT !.op = "setUserId", !.arg = u]
  /\ UNCHANGED <<hvars, svars, fvars, gvars, pvars, ivars>>

GetObservabilityUserId ==
  /\ uev' = [NoUev EXCEPT !.op = "getObservabilityUserId",
                           !.res = getObservabilityUserId(userStore)]
  /\ UNCHANGED <<userStore, hvars, svars, fvars, gvars, pvars, ivars>>

GetUserId(so) ==
  /\ LET r == getUserIdCatch(getUserIdTry(userStore, so))
     IN uev' = [NoUev EXCEPT !.op = "getUserId", !.res = r.value, !.read = so,
                             !.threw = r.threw]
  /\ UNCHANGED <<userStore, hvars, svars, fvars, gvars, pvars, ivars>>

\* a page that stores nothing about its user
UserInit == userStore = EmptyStore /\ uev = NoUev

\* what a host application may keep under a conventional user key
StoredUsers ==
  {BadJson, Object(Number(0), Undefined), Object(Number(7), Undefined),
   Object(Number(42), Undefined),
   Object(Text, Number(8)), Object(Undefined, Number(0)),
   Object(Number(0), Number(8))}

PatternKeys == {Patterns[k] : k \in 1..Len(Patterns)}

\* what it may keep under user_id and under userId
DirectUserId == {Null, Str("5"), Str("abc")}

DirectUserIdCamel == {Null, Str("7x"), Str("8")}

\* localStorage as the host application left it: at most MaxUserKeys of the
\* conventional user objects, and the two direct keys
AmbientInit ==
  /\ \E ks \in SUBSET PatternKeys :
       /\ Cardinality(ks) <= MaxUserKeys
       /\ \E f \in [ks -> StoredUsers], a \in DirectUserId, b \in DirectUserIdCamel :
            userStore = f @@ [k \in {x \in {"user_id"} : a.has} |-> a]
                          @@ [k \in {x \in {"userId"} : b.has} |-> b]
  /\ uev = NoUev

----------------------------------------------------------------------------
(* core/config.ts *)

\* JavaScript values of configuration keys: undefined, null, a value, or an
\* object with its fields
JsUndefined == [type |-> "undefined"]

JsNull == [type |-> "null"]

JsValue(v) == [type |-> "value", v |-> v]

JsObject(f) == [type |-> "object", fields |-> f]

ScalarKeys ==
  {"serviceUrl", "serviceName", "batchSize", "batchInterval", "retryAttempts",
   "devMode", "testMode"}

NestedKeys == {"autoTrack", "autoTrackSelectors", "exclude"}

SubKeys(k) ==
  CASE k = "autoTrack" ->
         {"pageViews", "errors", "apiErrors", "clicks", "formChanges", "apiCalls"}
    [] k = "autoTrackSelectors" -> {"clicks"}
    [] OTHER -> {"paths", "selectors"}

\* DEFAULT_CONFIG; the value of each key is written "default"
DEFAULT_CONFIG ==
  [k \in ScalarKeys \cup NestedKeys |->
     IF k \in NestedKeys THEN JsObject([f \in SubKeys(k) |-> JsValue("default")])
     ELSE JsValue("default")]

\* obj.key; a missing key reads as undefined
Get(obj, k) == IF k \in DOMAIN obj THEN obj[k] ELSE JsUndefined

\* a ?? d
Coalesce(a, d) == IF a.type \in {"undefined", "null"} THEN d ELSE a

\* { ...d, ...u }: every own key of u, whatever its value, replaces that of
\* d; spreading undefined or null adds nothing
Spread(d, u) == IF u.type = "object" THEN u.fields @@ d ELSE d

\* mergeConfig(userConfig): the merged object
mergeConfig(uc) ==
  [k \in DOMAIN DEFAULT_CONFIG |->
     IF k \in NestedKeys
     THEN JsObject(Spread(DEFAULT_CONFIG[k].fields, Get(uc, k)))
     ELSE Coalesce(Get(uc, k), DEFAULT_CONFIG[k])]

NoCev == [op |-> "none", res |-> EmptyStore]

\* mergeConfig(userConfig) as initObservability() calls it
MergeConfig ==
  /\ cev.op \in {"none", "pass"}
  /\ globalConfig' = mergeConfig(userConfig)
  /\ cev' = [op |-> "mergeConfig", res |-> mergeConfig(userConfig)]
  /\ UNCHANGED <<userConfig, hvars, svars, fvars, uvars, pvars, ivars>>

\* getConfig(): a copy of the global configuration
GetConfig ==
  /\ cev.op = "mergeConfig"
  /\ cev' = [op |-> "getConfig", res |-> globalConfig]
  /\ UNCHANGED <<globalConfig, userConfig, hvars, svars, fvars, uvars, pvars, ivars>>

\* the host is about to initialise again, with uc
PassConfig(uc) ==
  /\ cev.op = "getConfig"
  /\ uc # userConfig
  /\ userConfig' = uc
  /\ cev' = [NoCev EXCEPT !.op = "pass"]
  /\ UNCHANGED <<globalConfig, hvars, svars, fvars, uvars, pvars, ivars>>

\* updateConfig(updates): mergeConfig({ ...globalConfig, ...updates })
updateConfig(gc, updates) == mergeConfig(Spread(gc, JsObject(updates)))

\* what a caller of updateConfig() supplies: nothing, a scalar key, or a
\* nested object with one of its sub-keys
Updates ==
  {EmptyStore, "testMode" :> JsValue("update"),
   "autoTrack" :> JsObject("clicks" :> JsValue("update")),
   "exclude" :> JsObject("paths" :> JsValue("update"))}

\* updateConfig(updates), once the host has initialised
UpdateConfigWith(updates) ==
  /\ cev.op \in {"mergeConfig", "getConfig", "updateConfig"}
  /\ globalConfig' = updateConfig(globalConfig, updates)
  /\ cev' = [op |-> "updateConfig", res |-> updates]
  /\ UNCHANGED <<userConfig, hvars, svars, fvars, uvars, pvars, ivars>>

\* a supplied key, or a supplied sub-key of a nested object
KeyPaths ==
  {<<k>> : k \in ScalarKeys \cup NestedKeys}
    \cup UNION {{<<k, f>> : f \in SubKeys(k)} : k \in NestedKeys}

\* the subsets of S with at most n elements
RECURSIVE UpTo(_, _)
UpTo(S, n) ==
  IF n = 0 THEN {{}}
  ELSE UpTo(S, n - 1) \cup {t \cup {x} : t \in UpTo(S, n - 1), x \in S}

\* the object literal that supplies the paths ps with the values vs
ConfigOf(ps, vs) ==
  [k \in {p[1] : p \in ps} |->
     IF <<k>> \in ps THEN vs[<<k>>]
     ELSE JsObject([f \in {g \in SubKeys(k) : <<k, g>> \in ps} |-> vs[<<k, f>>]])]

\* the configurations a host may pass: at most MaxConfigKeys keys and
\* sub-keys, each given a value or explicitly undefined; a nested object is
\* given as an object or as undefined
UserConfigs ==
  UNION {{ConfigOf(ps, vs) :
            vs \in {w \in [ps -> {JsUndefined, JsValue("user")}] :
                      \A p \in ps : p[1] \in NestedKeys /\ Len(p) = 1
                                       => w[p] = JsUndefined}} :
         ps \in {q \in UpTo(KeyPaths, MaxConfigKeys) :
                   \A p \in q : Len(p) = 2 => <<p[1]>> \notin q}}

\* what the host passes when it initialises a second time
FollowUps ==
  {EmptyStore, "testMode" :> JsValue("user"),
   "autoTrack" :> JsObject("clicks" :> JsValue("user"))}

\* the module as loaded, and the configuration the host is about to pass
HostConfigInit ==
  /\ globalConfig = DEFAULT_CONFIG
  /\ userConfig \in UserConfigs
  /\ cev = NoCev

\* the module as loaded: globalConfig = { ...DEFAULT_CONFIG }
ConfigInit ==
  /\ globalConfig = DEFAULT_CONFIG
  /\ userConfig = EmptyStore
  /\ cev = NoCev

----------------------------------------------------------------------------
(* Payloads that cannot be JSON-encoded *)

\* every payload the host passes can be encoded
PayloadInit == cyclic = {}

\* body: JSON.stringify(payload) in sendImmediate and processQueue
AttemptOutcomes(p) == IF p \in cyclic THEN {SerializeError} ELSE FetchOutcomes(collector)

\* JSON.stringify(this.queue) in saveToStorage throws when a queued payload
\* cannot be encoded; the generic catch branch logs and leaves storage alone
StringifyQueue(q, it) ==
  IF \E id \in Range(q) : it[id].payload \in cyclic THEN "error" ELSE "ok"

\* the save of the step, if it made one, ended as JSON.stringify decides
SaveAsStringify == ev'.save # "none" => ev'.save = StringifyQueue(queue', item')

\* JSON.stringify is about to throw in a handler that has not finished
ThrowPending ==
  \/ \E c \in imm : c.p \in cyclic
  \/ flushing.idx > 0 /\ flushing.events[flushing.idx].payload \in cyclic
  \/ \E k \in Passes : /\ pass[k].pc = "fetch"
                         /\ item[pass[k].snap[pass[k].idx]].payload \in cyclic

----------------------------------------------------------------------------
(* Configuration and environment *)

\* updateConfig({testMode})
UpdateConfig(tm) ==
  /\ SyncFree
  /\ tm # testMode
  /\ testMode' = tm
  /\ ev' = [NoEv EXCEPT !.op = "updateConfig"]
  /\ UNCHANGED <<collector, qvars, cvars, pass, nextSerial, delivered, dropped, xvars>>

\* the k most recent items a previous page lifetime left in storage
LeftOver(n) ==
  Stored([i \in 1..n |-> [id |-> i - n - 1, type |-> "event", endpoint |-> "/events",
                          payload |-> i - n - 1, retries |-> 0]])

\* new HttpClient() after mergeConfig: the queue is loaded from storage
ClientInit(st, tm, mode) ==
  /\ testMode = tm
  /\ collector = mode
  /\ storage = st
  /\ queue = LoadedQueue(st)
  /\ item = LoadedItems(st)
  /\ batch = <<>>
  /\ isProcessing = FALSE
  /\ flushing = IdleFlush
  /\ imm = {}
  /\ pass = [k \in Passes |-> IdlePass]
  /\ nextSerial = 1
  /\ delivered = <<>>
  /\ dropped = {}
  /\ ev = NoEv

(* hooks/useObservability.ts: useAutoTracking *)

Hooks == 1..MaxHooks

\* a component that is not mounted: its effect has no closure
Unmounted == [mounted |-> FALSE, enabled |-> FALSE, prev |-> EmptyStore]

HooksInit == hooks = [h \in Hooks |-> Unmounted]

\* the object literal the effect passes: with enabled, key by key the values
\* of DEFAULT_CONFIG.autoTrack; without, false for every key
AutoTrackLiteral(enabled) ==
  [f \in SubKeys("autoTrack") |->
     IF enabled \/ f \in {"clicks", "formChanges", "apiCalls"}
     THEN JsValue("default") ELSE JsValue("off")]

\* updateConfig({ autoTrack })
WithAutoTrack(gc, fields) == updateConfig(gc, "autoTrack" :> JsObject(fields))

\* the effect runs: previousAutoTrack is copied from getConfig(), then the
\* literal replaces autoTrack
Mount(h, enabled) ==
  /\ ~hooks[h].mounted
  /\ hooks' = [hooks EXCEPT ![h] = [mounted |-> TRUE, enabled |-> enabled,
                                    prev |-> globalConfig["autoTrack"].fields]]
  /\ globalConfig' = WithAutoTrack(globalConfig, AutoTrackLiteral(enabled))
  /\ cev' = [NoCev EXCEPT !.op = "mount"]
  /\ UNCHANGED <<userConfig, old, hvars, svars, fvars, uvars, pvars>>

\* the cleanup of the effect: updateConfig({ autoTrack: previousAutoTrack })
Unmount(h) ==
  /\ hooks[h].mounted
  /\ hooks' = [hooks EXCEPT ![h] = Unmounted]
  /\ globalConfig' = WithAutoTrack(globalConfig, hooks[h].prev)
  /\ cev' = [NoCev EXCEPT !.op = "unmount"]
  /\ UNCHANGED <<userConfig, old, hvars, svars, fvars, uvars, pvars>>

\* the enabled prop changes: the cleanup runs, then the effect again
Rerender(h, enabled) ==
  /\ hooks[h].mounted
  /\ enabled # hooks[h].enabled
  /\ LET cleaned == WithAutoTrack(globalConfig, hooks[h].prev)
     IN /\ hooks' = [hooks EXCEPT ![h] = [mounted |-> TRUE, enabled |-> enabled,
                                          prev |-> cleaned["autoTrack"].fields]]
        /\ globalConfig' = WithAutoTrack(cleaned, AutoTrackLiteral(enabled))
  /\ cev' = [NoCev EXCEPT !.op = "rerender"]
  /\ UNCHANGED <<userConfig, old, hvars, svars, fvars, uvars, pvars>>

\* an HttpClient object: its buffer, its flush and its own EventQueue
NoInstance == [superseded |-> FALSE, batch |-> <<>>, flushing |-> IdleFlush,
               isProcessing |-> FALSE, queue |-> <<>>, item |-> <<>>]

\* the module variable httpClient has held one instance only, and no
\* component is mounted
InstanceInit == old = NoInstance /\ HooksInit

\* initHttpClient(): httpClient = new HttpClient().  The instance it replaces
\* (made by an earlier initObservability() or lazily by getHttpClient()) keeps
\* its buffer, its queue and its batch timer; the new one loads its queue from
\* storage.  The drain timers call processQueue() of the current instance.
InitHttpClient ==
  /\ SyncFree
  /\ ~old.superseded
  /\ imm = {} /\ flushing.idx = 0 /\ \A k \in Passes : pass[k].pc = "idle"
  /\ old' = [superseded |-> TRUE, batch |-> batch, flushing |-> IdleFlush,
             isProcessing |-> isProcessing, queue |-> queue, item |-> item]
  /\ queue' = LoadedQueue(storage)
  /\ item' = LoadedItems(storage)
  /\ batch' = <<>>
  /\ isProcessing' = FALSE
  /\ ev' = [NoEv EXCEPT !.op = "initHttpClient"]
  /\ UNCHANGED <<testMode, collector, storage, flushing, imm, pass, nextSerial,
                 delivered, dropped, svars, fvars, uvars, gvars, pvars, hooks>>

\* the setInterval callback the replaced instance started in its constructor
OldFlushTick ==
  /\ SyncFree
  /\ old.superseded
  /\ ~old.isProcessing /\ old.batch # <<>>
  /\ old' = [old EXCEPT !.isProcessing = TRUE,
                        !.flushing = [events |-> old.batch, idx |-> 1],
                        !.batch = <<>>]
  /\ ev' = [NoEv EXCEPT !.op = "oldFlushTick", !.http = TRUE]
  /\ UNCHANGED <<testMode, collector, qvars, cvars, pass, nextSerial, delivered,
                 dropped, svars, fvars, uvars, gvars, pvars, hooks>>

\* this.queue.enqueue() of the replaced instance: its own array, the shared key
OldEnqueue(id, rec) ==
  LET it == (id :> rec) @@ old.item
      r == saveToStorage(Append(Trim(old.queue), id), it, storage, "ok")
  IN [queue |-> r.queue, item |-> it, storage |-> r.storage]

\* the fetch of the replaced instance's flush settles; the loop moves on
OldFlushDone(o) ==
  /\ SyncFree
  /\ old.flushing.idx > 0
  /\ LET e == old.flushing.events[old.flushing.idx]
         more == old.flushing.idx < Len(old.flushing.events)
         fl == IF more THEN [old.flushing EXCEPT !.idx = @ + 1] ELSE IdleFlush
         q == OldEnqueue(e.payload, [type |-> EventType(e.endpoint),
                                     endpoint |-> e.endpoint,
                                     payload |-> e.payload, retries |-> 0])
     IN /\ IF o.ok THEN Tally(e.payload) ELSE UNCHANGED delivered
        /\ IF ~o.ok /\ ShouldQueue(TRUE, o)
           THEN /\ old' = [old EXCEPT !.flushing = fl, !.isProcessing = more,
                                      !.queue = q.queue, !.item = q.item]
                /\ storage' = q.storage
           ELSE /\ old' = [old EXCEPT !.flushing = fl, !.isProcessing = more]
                /\ UNCHANGED storage
        /\ ev' = [NoEv EXCEPT !.op = "oldFlushDone", !.http = more, !.p = e.payload,
                              !.cause = o.cause, !.cors = ~o.ok /\ isCorsError(o),
                              !.qof = TRUE,
                              !.save = SaveSeen(~o.ok /\ ShouldQueue(TRUE, o), "ok")]
  /\ UNCHANGED <<testMode, collector, queue, item, cvars, pass, nextSerial,
                 dropped, svars, fvars, uvars, gvars, pvars, hooks>>

\* the n events the batch buffer holds after n batched sends and no tick
Buffered(n) == [i \in 1..n |-> [endpoint |-> "/events", payload |-> i - n - 1]]

\* the page as initObservability() finds it in a new tab
InitWith(st, tm, mode) ==
  ClientInit(st, tm, mode) /\ SessionInit /\ SeverityInit /\ UserInit /\ ConfigInit /\ PayloadInit /\ InstanceInit

\* the collector becomes available for good
Recover ==
  /\ SyncFree
  /\ collector # "up"
  /\ collector' = "up"
  /\ ev' = [NoEv EXCEPT !.op = "recover"]
  /\ UNCHANGED <<testMode, qvars, cvars, pass, nextSerial, delivered, dropped, xvars>>

----------------------------------------------------------------------------
(* tracking/auto-instrumentation.ts: the fetch interceptor *)

\* config.autoTrack.apiErrors as the interceptor reads it; the default is true
apiErrorsTracked ==
  Get(globalConfig["autoTrack"].fields, "apiErrors") = JsValue("default")

\* the wrapper around window.fetch sees a response that is not ok, or a
\* rejection, and calls trackServiceError; the delivery client's own POSTs go
\* through the same wrapper
Tracked(o) == ~o.ok /\ apiErrorsTracked /\ ~testMode

\* the buffer after trackServiceError's send('/errors/services', payload)
WithServiceError(b, n) ==
  Append(b, [endpoint |-> "/errors/services", payload |-> n])

\* a POST of the running flush settles: the wrapper runs first, then
\* sendImmediate's continuation and the flush loop.  isProcessing is set, so
\* the send() made by trackServiceError only appends.
InterceptedFlushDone(o) ==
  /\ SyncFree
  /\ flushing.idx > 0
  /\ IF Tracked(o)
     THEN /\ nextSerial <= MaxSends
          /\ nextSerial' = nextSerial + 1
          /\ batch' = WithServiceError(batch, nextSerial)
     ELSE UNCHANGED <<nextSerial, batch>>
  /\ LET e == flushing.events[flushing.idx]
         more == flushing.idx < Len(flushing.events)
     IN /\ sendImmediateDone(e.endpoint, e.payload, TRUE, o, "ok")
        /\ IF more
           THEN flushing' = [flushing EXCEPT !.idx = @ + 1] /\ UNCHANGED isProcessing
           ELSE flushing' = IdleFlush /\ isProcessing' = FALSE
        /\ ev' = [NoEv EXCEPT !.op = "flushDone", !.http = more, !.p = e.payload,
                              !.cause = o.cause, !.cors = ~o.ok /\ isCorsError(o),
                              !.qof = TRUE,
                              !.save = SaveSeen(~o.ok /\ ShouldQueue(TRUE, o), "ok")]
  /\ UNCHANGED <<testMode, collector, imm, pass, dropped, xvars>>

\* a POST of a drain pass settles: the wrapper runs first (its send() starts a
\* flush when the buffer is full and none is running), then processQueue's
\* continuation
InterceptedDrainDone(k, o) ==
  /\ SyncFree
  /\ pass[k].pc = "fetch"
  /\ IF Tracked(o)
     THEN /\ nextSerial <= MaxSends
          /\ nextSerial' = nextSerial + 1
          /\ LET b == WithServiceError(batch, nextSerial)
             IN IF BatchFull(b) /\ ~isProcessing
                THEN flushStart(b)
                ELSE batch' = b /\ UNCHANGED <<isProcessing, flushing>>
     ELSE UNCHANGED <<nextSerial, batch, isProcessing, flushing>>
  /\ LET e == pass[k].snap[pass[k].idx]
     IN /\ IF o.ok
           THEN /\ Tally(item[e].payload)
                /\ remove(e, "ok")
                /\ pass' = [pass EXCEPT ![k].pc = "next", ![k].idx = @ + 1]
           ELSE /\ UNCHANGED delivered
                /\ IF isCorsErrorDrain(o)
                   THEN /\ remove(e, "ok")
                        /\ pass' = [pass EXCEPT ![k].pc = "next", ![k].idx = @ + 1]
                   ELSE /\ incrementRetry(e, "ok")
                        /\ pass' = [pass EXCEPT ![k].pc = "sleep"]
        /\ ev' = [NoEv EXCEPT !.op = "drainDone", !.p = item[e].payload,
                              !.cause = o.cause,
                              !.cors = ~o.ok /\ isCorsErrorDrain(o),
                              !.sendCors = ~o.ok /\ isCorsError(o),
                              !.wait = IF o.ok \/ isCorsErrorDrain(o) THEN 0
                                       ELSE Backoff(item'[e].retries),
                              !.save = SaveSeen(e \in Range(queue) \/ o.ok
                                                \/ isCorsErrorDrain(o), "ok")]
  /\ UNCHANGED <<testMode, collector, imm, dropped, xvars>>

----------------------------------------------------------------------------
(* Specifications *)

QuotaOutcomes == {"ok", "quotaOnce", "quotaTwice"}

SendNext ==
  \/ \E ep \in Endpoints, qof \in BOOLEAN, im \in BOOLEAN : Send(ep, qof, im)
  \/ \E fn \in TrackingFunctions, w \in BOOLEAN : Track(fn, w)
  \/ FlushTick
  \/ \E o \in FetchOutcomes(collector), so \in QuotaOutcomes : FlushDone(o, so)
  \/ \E c \in imm, o \in FetchOutcomes(collector), so \in QuotaOutcomes : SendDone(c, o, so)
  \/ CheckHealth
  \/ \E tm \in BOOLEAN : UpdateConfig(tm)

DrainNext ==
  \/ \E k \in Passes : ProcessQueue(k)
  \/ \E k \in Passes, so \in SaveOutcomes : Visit(k, so)
  \/ \E k \in Passes, o \in FetchOutcomes(collector), so \in QuotaOutcomes : DrainDone(k, o, so)
  \/ \E k \in Passes : Wake(k)

\* the whole client
Init == \E tm \in BOOLEAN : InitWith(Absent, tm, "flaky")

Next == SendNext \/ DrainNext

Spec == Init /\ [][Next]_vars

\* the send path alone: tracking calls, immediate sends, batch and flush,
\* with storage that accepts a write or is over quota, in a tab that has its
\* session id
InitSend ==
  \E tm \in BOOLEAN :
    ClientInit(Absent, tm, "flaky") /\ SessionStarted /\ SeverityInit /\ UserInit /\ ConfigInit /\ PayloadInit /\ InstanceInit

SpecSend == InitSend /\ [][SendNext]_vars

\* the drain alone, over what an earlier page lifetime left in storage
InitDrain == \E n \in 1..2 : InitWith(LeftOver(n), FALSE, "flaky")

SpecDrain == InitDrain /\ [][DrainNext]_vars

\* the batch path alone: batched sends, the batch timer and the flush, in a
\* client whose buffer already holds some events, fewer than batchSize
InitBatch ==
  \E n \in 0..(batchSize - 1) :
    /\ testMode = FALSE
    /\ collector = "flaky"
    /\ storage = Absent
    /\ queue = LoadedQueue(Absent)
    /\ item = LoadedItems(Absent)
    /\ batch = Buffered(n)
    /\ isProcessing = FALSE
    /\ flushing = IdleFlush
    /\ imm = {}
    /\ pass = [k \in Passes |-> IdlePass]
    /\ nextSerial = 1
    /\ delivered = <<>>
    /\ dropped = {}
    /\ ev = NoEv
    /\ SessionStarted /\ SeverityInit /\ UserInit /\ ConfigInit /\ PayloadInit /\ InstanceInit

BatchNext ==
  \/ \E ep \in Endpoints, qof \in BOOLEAN : Send(ep, qof, FALSE)
  \/ FlushTick
  \/ \E o \in FetchOutcomes(collector) : FlushDone(o, "ok")

SpecBatch == InitBatch /\ [][BatchNext]_vars

\* the batch path with its timer: setInterval keeps calling flushBatch and
\* every fetch settles
BatchFlushDone == \E o \in FetchOutcomes(collector) : FlushDone(o, "ok")

SpecBatchLive ==
  /\ InitBatch
  /\ [][BatchNext]_vars
  /\ WF_vars(FlushTick) /\ WF_vars(BatchFlushDone)

\* the severity rule alone: service errors with any status, or none, arrive
\* one after the other
SeverityNext ==
  \/ DeriveSeverity
  \/ \E st \in StatusCodes : NextError(st)

SpecSeverity == InitWith(Absent, FALSE, "up") /\ [][SeverityNext]_vars

\* the user id alone: the host sets, clears and asks for the user id over
\* whatever its application keeps in localStorage
InitUser ==
  /\ ClientInit(Absent, FALSE, "up")
  /\ SessionInit /\ SeverityInit /\ AmbientInit /\ ConfigInit /\ PayloadInit /\ InstanceInit

UserNext ==
  \/ \E u \in {NoUser} \cup {User(n) : n \in UserIds} : SetUserId(u)
  \/ GetObservabilityUserId
  \/ \E so \in ReadOutcomes : GetUserId(so)

SpecUser == InitUser /\ [][UserNext]_vars

\* retry counts: sends that may fail and be queued, the flush, and one drain
\* pass, over a short queue with a collector that may fail in every way, or
\* over a full queue with a collector that answers with errors; the storage
\* writes succeed
InitRetry ==
  \/ InitWith(LeftOver(1), FALSE, "flaky")
  \/ InitWith(LeftOver(maxQueueSize), FALSE, "error")

RetryNext ==
  \/ \E im \in BOOLEAN : Send("/events", TRUE, im)
  \/ FlushTick
  \/ \E o \in FetchOutcomes(collector) : FlushDone(o, "ok")
  \/ \E c \in imm, o \in FetchOutcomes(collector) : SendDone(c, o, "ok")
  \/ ((Len(queue) <= MaxSends + 1 \/ Len(queue) >= maxQueueSize - 1)
        /\ ProcessQueue(1))
  \/ Visit(1, "ok")
  \/ \E o \in FetchOutcomes(collector) : DrainDone(1, o, "ok")
  \/ Wake(1)

SpecRetry == InitRetry /\ [][RetryNext]_vars

\* the durable queue: immediate sends, issued one after the other, that may
\* fail and be queued, and one drain pass, over a short queue with a collector
\* that is up or answers with errors, or over a full queue with a collector
\* that answers with errors; every storage write may succeed, hit the quota
\* once or twice, or fail otherwise
InitStore ==
  \/ \E mode \in {"up", "error"} : InitWith(LeftOver(1), FALSE, mode)
  \/ InitWith(LeftOver(maxQueueSize), FALSE, "error")

StoreNext ==
  \/ (imm = {} /\ Send("/events", TRUE, TRUE))
  \/ \E c \in imm, o \in FetchOutcomes(collector), so \in SaveOutcomes : SendDone(c, o, so)
  \/ ((Len(queue) <= MaxSends + 1 \/ Len(queue) >= maxQueueSize - 1)
        /\ ProcessQueue(1))
  \/ \E so \in SaveOutcomes : Visit(1, so)
  \/ \E o \in FetchOutcomes(collector), so \in SaveOutcomes : DrainDone(1, o, so)
  \/ Wake(1)

SpecStore == InitStore /\ [][StoreNext]_vars

\* the whole path of a payload: sends of either kind with and without
\* queueOnFailure, the flush and one drain pass, over a short queue with a
\* collector that is up, answers with errors or is down, or over a full queue
\* with a collector that answers with errors; the write that follows an
\* enqueue succeeds or hits the quota
InitKeep ==
  \/ \E mode \in {"up", "error", "down"} : InitWith(LeftOver(1), FALSE, mode)
  \/ InitWith(LeftOver(maxQueueSize), FALSE, "error")

KeepNext ==
  \/ \E qof \in BOOLEAN, im \in BOOLEAN : (imm = {} /\ Send("/events", qof, im))
  \/ FlushTick
  \/ \E o \in FetchOutcomes(collector), so \in QuotaOutcomes : FlushDone(o, so)
  \/ \E c \in imm, o \in FetchOutcomes(collector), so \in QuotaOutcomes : SendDone(c, o, so)
  \/ ((Len(queue) <= MaxSends + 1 \/ Len(queue) >= maxQueueSize - 1)
        /\ ProcessQueue(1))
  \/ Visit(1, "ok")
  \/ \E o \in FetchOutcomes(collector) : DrainDone(1, o, "ok")
  \/ Wake(1)

SpecKeep == InitKeep /\ [][KeepNext]_vars

\* a host that passes queueOnFailure: false with every send(), immediate or
\* batched, and starts with nothing queued
OptOutNext ==
  \/ \E ep \in Endpoints, im \in BOOLEAN : Send(ep, FALSE, im)
  \/ FlushTick
  \/ \E o \in FetchOutcomes(collector) : FlushDone(o, "ok")
  \/ \E c \in imm, o \in FetchOutcomes(collector) : SendDone(c, o, "ok")

SpecOptOut == InitWith(Absent, FALSE, "flaky") /\ [][OptOutNext]_vars

\* the client with initAutoInstrumentation() done and the default
\* configuration: the application has buffered some events and makes no
\* further tracking call; the collector is down or answers with errors, and
\* every POST of the client goes through the wrapper around window.fetch
InitIntercept ==
  \E n \in 1..(batchSize - 1), mode \in {"error", "down", "flaky"} :
    /\ testMode = FALSE
    /\ collector = mode
    /\ storage = Absent
    /\ queue = LoadedQueue(Absent)
    /\ item = LoadedItems(Absent)
    /\ batch = Buffered(n)
    /\ isProcessing = FALSE
    /\ flushing = IdleFlush
    /\ imm = {}
    /\ pass = [k \in Passes |-> IdlePass]
    /\ nextSerial = 1
    /\ delivered = <<>>
    /\ dropped = {}
    /\ ev = NoEv
    /\ SessionStarted /\ SeverityInit /\ UserInit /\ ConfigInit /\ PayloadInit /\ InstanceInit

InterceptNext ==
  \/ FlushTick
  \/ \E o \in FetchOutcomes(collector) : InterceptedFlushDone(o)
  \/ ProcessQueue(1)
  \/ Visit(1, "ok")
  \/ \E o \in FetchOutcomes(collector) : InterceptedDrainDone(1, o)
  \/ Wake(1)

SpecIntercept == InitIntercept /\ [][InterceptNext]_vars

\* tracking calls before and after initObservability(), or a second
\* initObservability(): batched sends, both instances' batch timers, and the
\* drain of the current instance
InitReinit == \E mode \in {"error", "flaky"} : InitWith(Absent, FALSE, mode)

ReinitNext ==
  \/ Send("/events", TRUE, FALSE)
  \/ FlushTick
  \/ \E o \in FetchOutcomes(collector) : FlushDone(o, "ok")
  \/ InitHttpClient
  \/ OldFlushTick
  \/ \E o \in FetchOutcomes(collector) : OldFlushDone(o)
  \/ ProcessQueue(1)
  \/ Visit(1, "ok")
  \/ \E o \in FetchOutcomes(collector) : DrainDone(1, o, "ok")
  \/ Wake(1)

SpecReinit == InitReinit /\ [][ReinitNext]_vars

\* payloads that may not be encodable: sends, the flush and one drain pass.
\* JSON.stringify throws inside the handler that called it, so nothing else
\* runs until that handler's catch block has finished.
InitSerialize ==
  /\ ClientInit(Absent, FALSE, "flaky")
  /\ SessionStarted /\ SeverityInit /\ UserInit /\ ConfigInit
  /\ cyclic \in SUBSET (1..MaxSends)
  /\ InstanceInit

SerializeNext ==
  \/ ~ThrowPending /\ \E ep \in Endpoints, im \in BOOLEAN : Send(ep, TRUE, im)
  \/ ~ThrowPending /\ FlushTick
  \/ /\ flushing.idx > 0
     /\ ThrowPending => flushing.events[flushing.idx].payload \in cyclic
     /\ \E o \in AttemptOutcomes(flushing.events[flushing.idx].payload),
           so \in {"ok", "error"} : FlushDone(o, so) /\ SaveAsStringify
  \/ \E c \in imm :
       /\ ThrowPending => c.p \in cyclic
       /\ \E o \in AttemptOutcomes(c.p), so \in {"ok", "error"} :
            SendDone(c, o, so) /\ SaveAsStringify
  \/ ~ThrowPending /\ ProcessQueue(1)
  \/ ~ThrowPending /\ \E so \in {"ok", "error"} : Visit(1, so) /\ SaveAsStringify
  \/ /\ pass[1].pc = "fetch"
     /\ ThrowPending => item[pass[1].snap[pass[1].idx]].payload \in cyclic
     /\ \E o \in AttemptOutcomes(item[pass[1].snap[pass[1].idx]].payload),
           so \in {"ok", "error"} : DrainDone(1, o, so) /\ SaveAsStringify
  \/ ~ThrowPending /\ Wake(1)

SpecSerialize == InitSerialize /\ [][SerializeNext]_vars

\* the configuration alone: initObservability(config) merges what the host
\* passes, and getConfig() reads the result
InitConfig ==
  /\ ClientInit(Absent, FALSE, "up")
  /\ SessionInit /\ SeverityInit /\ UserInit /\ HostConfigInit /\ PayloadInit /\ InstanceInit

ConfigNext ==
  \/ MergeConfig
  \/ GetConfig
  \/ \E uc \in FollowUps : PassConfig(uc)

SpecConfig == InitConfig /\ [][ConfigNext]_vars

\* the host initialises with its configuration and updates it afterwards
UpdateNext ==
  \/ MergeConfig
  \/ GetConfig
  \/ \E u \in Updates : UpdateConfigWith(u)

SpecUpdate == InitConfig /\ [][UpdateNext]_vars

\* components using useAutoTracking mount, re-render and unmount in any order
HooksNext ==
  \/ \E h \in Hooks, enabled \in BOOLEAN : Mount(h, enabled)
  \/ \E h \in Hooks, enabled \in BOOLEAN : Rerender(h, enabled)
  \/ \E h \in Hooks : Unmount(h)

SpecHooks == InitWith(Absent, FALSE, "up") /\ [][HooksNext]_vars

\* the session id alone: the host calls getSessionId() and resetSession() as
\* time passes, sessionStorage works or throws, and may be emptied
SessionNext ==
  \/ \E so \in StorageOutcomes : GetSessionId(so)
  \/ \E so \in StorageOutcomes : ResetSession(so)
  \/ \E d \in Gaps : Advance(d)
  \/ ClearSession

SpecSession == InitWith(Absent, FALSE, "up") /\ [][SessionNext]_vars

\* immediate sends that may fail, and the drain of what they queued; the
\* storage writes succeed
RoundNext ==
  \/ \E ep \in Endpoints : Send(ep, TRUE, TRUE)
  \/ \E c \in imm, o \in FetchOutcomes(collector) : SendDone(c, o, "ok")
  \/ \E k \in Passes : ProcessQueue(k)
  \/ \E k \in Passes : Visit(k, "ok")
  \/ \E k \in Passes, o \in FetchOutcomes(collector) : DrainDone(k, o, "ok")
  \/ \E k \in Passes : Wake(k)

SpecRound == InitSend /\ [][RoundNext]_vars

\* a queue at capacity; the collector either answers or keeps failing, every
\* enqueue finds storage accepting the write or over quota, and the drain
\* passes explored are those that start on a queue still that long and whose
\* writes succeed
InitFull ==
  \E n \in {maxQueueSize - 1, maxQueueSize}, mode \in {"up", "error"} :
    InitWith(LeftOver(n), FALSE, mode)

FullNext ==
  \/ \E im \in BOOLEAN : Send("/events", TRUE, im)
  \/ FlushTick
  \/ \E o \in FetchOutcomes(collector), so \in QuotaOutcomes : FlushDone(o, so)
  \/ \E c \in imm, o \in FetchOutcomes(collector), so \in QuotaOutcomes : SendDone(c, o, so)
  \/ (Len(queue) >= maxQueueSize - 1 /\ ProcessQueue(1))
  \/ Visit(1, "ok")
  \/ \E o \in FetchOutcomes(collector) : DrainDone(1, o, "ok")
  \/ Wake(1)

SpecFull == InitFull /\ [][FullNext]_vars

\* an outage that ends: timers keep firing, every request settles and the
\* storage writes succeed
InitLive == InitWith(Absent, FALSE, "error")

LiveFlush == \E o \in FetchOutcomes(collector) : FlushDone(o, "ok")

LiveVisit == Visit(1, "ok")

LiveDrainDone == \E o \in FetchOutcomes(collector) : DrainDone(1, o, "ok")

LiveNext ==
  \/ Track("trackEvent", TRUE)
  \/ FlushTick
  \/ LiveFlush
  \/ ProcessQueue(1)
  \/ LiveVisit
  \/ LiveDrainDone
  \/ Wake(1)
  \/ Recover

SpecLive ==
  /\ InitLive
  /\ [][LiveNext]_vars
  /\ WF_vars(FlushTick) /\ WF_vars(LiveFlush)
  /\ SF_vars(ProcessQueue(1)) /\ WF_vars(LiveVisit)
  /\ WF_vars(LiveDrainDone) /\ WF_vars(Wake(1))

----------------------------------------------------------------------------
(* Properties *)

InQueue(p) == p \in Range(queue)

SendPathDone == {"sendDone", "flushDone"}

\* C1: no tracking call (trackEvent, trackUIEvent, trackUIError,
\* trackServiceError) throws or rejects, whatever its collaborators do.
C1_TrackingNeverRejects ==
  ev.op \in TrackingFunctions => ev.res = "resolved"

\* C2: a send() made while testMode is true issues no HTTP request, leaves the
\* batch buffer, the in-flight sends, the durable queue and its storage as they
\* were, and resolves.
C2_TestModeSendInert ==
  [][(testMode /\ ev'.op = "send") =>
       /\ ~ev'.http
       /\ ev'.res = "resolved"
       /\ UNCHANGED <<batch, imm, flushing, queue, storage>>]_vars

\* a send() in test mode happened while earlier payloads were still buffered
C2_Witness == testMode /\ ev.op = "send" /\ ev.res = "resolved" /\ batch # <<>>

\* C3: while testMode is enabled no client activity (flush timer, drain pass,
\* health check) issues an HTTP request.
C3_NoNetworkInTestMode == [][testMode => ~ev'.http]_vars

Payloads == 1..MaxSends

C5_CorsNeverQueued ==
  [][(ev'.op \in SendPathDone /\ ev'.cors) =>
       /\ UNCHANGED <<queue, storage>>
       /\ ev'.p \notin Range(queue')]_vars

\* a CORS-classified failure of an attempt that had queueOnFailure set
C5_Witness == ev.op \in SendPathDone /\ ev.cors /\ ev.qof /\ ~InQueue(ev.p)

\* C6: a send()/flush attempt that fails because the host is unreachable (no
\* CORS block, no HTTP status) with queueOnFailure set leaves its payload in
\* the durable queue (the storage write not having emptied the queue).
C6_NetworkFailureQueued ==
  [][(/\ ev'.op \in SendPathDone
      /\ ev'.cause = "refused"
      /\ ev'.qof
      /\ ev'.save # "quotaTwice") => ev'.p \in Range(queue')]_vars

\* the kind the collector contract assigns to each endpoint
KindOfEndpoint ==
  [e \in Endpoints |->
     CASE e = "/events" -> "event"
       [] e = "/ui-events" -> "ui_event"
       [] e = "/errors/ui" -> "ui_error"
       [] e = "/errors/services" -> "service_error"]

\* C7: an immediate send() whose attempt fails with an unreachable host or a
\* non-2xx response enqueues, when queueOnFailure is set, exactly one item, with
\* retry_count 0 and the kind of its endpoint; otherwise none.
C7_ImmediateFailureEnqueuesOne ==
  [][(/\ ev'.op = "sendDone"
      /\ ev'.cause \in {"refused", "http"}
      /\ ev'.save # "quotaTwice") =>
       IF ev'.qof
       THEN /\ Range(queue') \ Range(queue) = {ev'.p}
            /\ item'[ev'.p].retries = 0
            /\ item'[ev'.p].type = KindOfEndpoint[item'[ev'.p].endpoint]
       ELSE UNCHANGED queue]_vars

IsSuffix(s, t) == Len(s) <= Len(t) /\ s = SubSeq(t, Len(t) - Len(s) + 1, Len(t))

\* the queue an enqueue of p must leave when the storage write succeeds
AfterEnqueue(q, p) ==
  Append(IF Len(q) >= 100 THEN SubSeq(q, 26, Len(q)) ELSE q, p)

Enqueued == ev'.op \in SendPathDone /\ ev'.save # "none"

\* C9 as stated: every enqueue removes exactly the 25 oldest items of a full
\* queue (none otherwise) and leaves the new item last.
C9_EvictsExactlyQuarter ==
  [][Enqueued => queue' = AfterEnqueue(queue, ev'.p)]_vars

\* C9, amended: that holds when the storage write does not hit the quota; on a
\* quota error only the 50 most recent items are kept (the new one last), and
\* if the retry fails too the queue is emptied.  In every case what is retained
\* is a suffix of the enqueue order, and the new item has retry_count 0.
C9_EvictionIsFifo ==
  [][Enqueued =>
       /\ IsSuffix(queue', Append(queue, ev'.p))
       /\ item'[ev'.p].retries = 0
       /\ (ev'.save \in {"ok", "error"} => queue' = AfterEnqueue(queue, ev'.p))
       /\ (ev'.save = "quotaOnce" =>
             /\ queue' = SliceLast(AfterEnqueue(queue, ev'.p), 50)
             /\ queue'[Len(queue')] = ev'.p)
       /\ (ev'.save = "quotaTwice" => queue' = <<>>)]_vars

\* an enqueue on a full queue evicted the oldest items
C9_Witness ==
  /\ ev.op \in SendPathDone /\ ev.save = "ok"
  /\ Len(queue) = 76 /\ queue[1] = -75 /\ queue[Len(queue)] = ev.p

\* C10: an item that has used up its retries is removed without a delivery
\* attempt, and no delivery of an item completes after a drain pass dropped it.
C10_NoDeliveryAfterDrop ==
  [][/\ (ev'.op = "drainFetch" => item[ev'.p].retries < retryAttempts)
     /\ \A i \in dropped : Delivered(i)' = Delivered(i)]_vars

\* the endpoint the send()/flush attempt that settles in this step was for
AttemptEndpoint ==
  IF ev'.op = "sendDone"
  THEN (CHOOSE c \in imm : c \notin imm').endpoint
  ELSE flushing.events[flushing.idx].endpoint

\* C11: a payload queued by a failed send() is stored with the endpoint and
\* body of that send(), neither changes while it is queued, the drain POSTs it
\* to that endpoint with that body, and it is delivered exactly once.
C11_RoundTrip ==
  [][/\ (Enqueued /\ ev'.p \in Range(queue')) =>
          /\ item'[ev'.p].endpoint = AttemptEndpoint
          /\ item'[ev'.p].payload = ev'.p
     /\ \A id \in DOMAIN item :
          /\ item'[id].endpoint = item[id].endpoint
          /\ item'[id].payload = item[id].payload
     /\ (ev'.op = "drainFetch" => ev'.to = item[ev'.p].endpoint)
     /\ \A p \in Payloads : Delivered(p)' <= 1]_vars

\* C12: no queued item is delivered more than once, an item dropped for max
\* retries is never delivered, and the queue is empty once every item has
\* been delivered or dropped.
C12_DeliveredAtMostOnce ==
  /\ \A id \in DOMAIN item : Delivered(item[id].payload) <= 1
  /\ \A id \in dropped : Delivered(item[id].payload) = 0
  /\ (\A id \in DOMAIN item : Delivered(item[id].payload) > 0 \/ id \in dropped)
       => queue = <<>>

\* the step is a getSessionId() call that returned
GotSession == sev'.op = "getSessionId" /\ sev'.res = "returned"

\* the step is a resetSession() call that returned
DidReset == sev'.op = "resetSession" /\ sev'.res = "returned"

C14_NewIdAfterTimeout ==
  [][(/\ GotSession
      /\ sessionLog.op # "none"
      /\ ~sessionLog.cleared
      /\ now - sessionLog.at > SessionTimeout)
     => /\ sev'.id # sessionLog.id
        /\ sessionStore'[SessionKey] = sev'.id
        /\ sessionStore[SessionKey] # sev'.id]_vars

\* C15: a getSessionId() call that returns an existing id, and a
\* resetSession() call, store the current time under
\* 'observability_session_last_activity'.
C15_ActivityRefreshed ==
  [][((GotSession /\ Has(sessionStore, SessionKey)) \/ DidReset)
     => /\ Has(sessionStore', ActivityKey)
        /\ sessionStore'[ActivityKey] = now]_vars

C17_SessionNeverThrows == sev.res # "threw"

\* the step is a send() that appended its event to the batch buffer
\* the calls that reach send(): by the host, or by a tracking function
SendOps == {"send"} \cup TrackingFunctions

BatchedSend == ev'.op \in SendOps /\ nextSerial' = nextSerial + 1 /\ imm' = imm

\* the step starts a flush
FlushStarted == flushing' # flushing /\ flushing'.idx = 1 /\ isProcessing'

ReferenceSeverity(st) ==
  IF ~st.present THEN "ERROR"
  ELSE IF st.code >= 500 THEN "ERROR"
  ELSE IF st.code = 404 THEN "INFO"
  ELSE IF st.code >= 400 THEN "WARNING"
  ELSE "INFO"

\* C19: the severity trackServiceError derives equals the reference rule:
\* status >= 500 ERROR, 400..499 except 404 WARNING, 404 INFO, any other
\* present status INFO, no status ERROR.
C19_SeverityMatchesReference ==
  severity # "none" => severity = ReferenceSeverity(statusCode)

\* C19 (amended): as the reference rule, except that a status of 0 counts as
\* no status: status >= 500 ERROR, 400..499 except 404 WARNING, 404 INFO,
\* any other status but 0 INFO, no status or status 0 ERROR.
C19_SeverityRule ==
  severity # "none" =>
    /\ (statusCode.present /\ statusCode.code # 0) => severity = ReferenceSeverity(statusCode)
    /\ (~statusCode.present \/ statusCode.code = 0) => severity = "ERROR"
    /\ statusCode = Status(404) => severity = "INFO"
    /\ statusCode = Status(503) => severity = "ERROR"
    /\ statusCode = Status(401) => severity = "WARNING"

\* a service error whose response carries status 0 has been classified
C19_Witness == statusCode = Status(0) /\ severity = "ERROR"

\* a string that is a number and nothing else
IsNumeric(t) == t.has /\ t.text \in {"0", "5", "7", "8"}

\* a field that holds a number
IsNumber(f) == f.type = "number"

\* the first numeric id / user_id field of the stored user objects, from key k
RECURSIVE FirstNumericField(_, _)
FirstNumericField(store, k) ==
  IF k > Len(Patterns) THEN NoUser
  ELSE LET u == GetJson(store, Patterns[k])
       IN IF u.json = "object" /\ IsNumber(u.id) THEN User(u.id.n)
          ELSE IF u.json = "object" /\ IsNumber(u.user_id) THEN User(u.user_id.n)
          ELSE FirstNumericField(store, k + 1)

\* the resolution order as stated
ResolvedUser(store) ==
  IF Has(store, UserIdKey) THEN User(ParseInt(store[UserIdKey].text).n)
  ELSE IF ~FirstNumericField(store, 1).null THEN FirstNumericField(store, 1)
  ELSE IF IsNumeric(GetText(store, "user_id")) THEN User(ParseInt(store["user_id"].text).n)
  ELSE IF IsNumeric(GetText(store, "userId")) THEN User(ParseInt(store["userId"].text).n)
  ELSE NoUser

IsNonZeroNumber(f) == f.type = "number" /\ f.n # 0

\* the first stored user object, from key k on, with a non-zero number as
\* id or else as user_id
RECURSIVE FirstNonZeroField(_, _)
FirstNonZeroField(store, k) ==
  IF k > Len(Patterns) THEN NoUser
  ELSE LET u == GetJson(store, Patterns[k])
       IN IF u.json = "object" /\ IsNonZeroNumber(u.id) THEN User(u.id.n)
          ELSE IF u.json = "object" /\ IsNonZeroNumber(u.user_id) THEN User(u.user_id.n)
          ELSE FirstNonZeroField(store, k + 1)

\* the string under user_id unless it is missing or empty, else the one
\* under userId; its leading integer, if it has one
LeadingDirect(store) ==
  LET a == GetText(store, "user_id")
      b == GetText(store, "userId")
      t == IF a.has /\ a.text # "" THEN a ELSE b
  IN IF ~t.has \/ ParseInt(t.text).nan THEN NoUser ELSE User(ParseInt(t.text).n)

WithoutBadJson(store) ==
  [k \in {x \in DOMAIN store : store[x] # BadJson} |-> store[k]]

\* C21: getUserId() never throws, even when localStorage does; unparseable
\* JSON under a user key counts as that key being absent and the remaining
\* keys are still consulted; the result is null when no key yields an id.
\* {user: '{"id": 42}'} gives 42, garbage under user and nothing else null.
C21_GetUserIdNeverThrows ==
  [][uev'.op = "getUserId" =>
       /\ ~uev'.threw
       /\ uev'.read = "ok" =>
            /\ uev'.res = getUserId(WithoutBadJson(userStore))
            /\ uev'.res.null <=> /\ FirstNonZeroField(userStore, 1).null
                                 /\ LeadingDirect(userStore).null
            /\ userStore = ("user" :> Object(Number(42), Undefined)) => uev'.res = User(42)
            /\ userStore = ("user" :> BadJson) => uev'.res = NoUser
       /\ uev'.read = "getThrows" => uev'.res = NoUser]_vars

\* garbage under user, an id of 7 under currentUser: getUserId() answered 7
C21_Witness ==
  /\ uev.op = "getUserId" /\ ~uev.threw
  /\ GetJson(userStore, "user") = BadJson
  /\ GetJson(userStore, "currentUser") = Object(Number(7), Undefined)
  /\ uev.res = User(7)

\* the value the merge policy gives key k: the host's, if it supplied one
\* that is not undefined, else the default
Chosen(obj, k, d) == IF Get(obj, k).type # "undefined" THEN Get(obj, k) ELSE d

\* the merged configuration under the stated policy, nested objects key by key
PolicyMerge(uc) ==
  [k \in DOMAIN DEFAULT_CONFIG |->
     IF k \in NestedKeys
     THEN JsObject([f \in SubKeys(k) |->
            IF Get(uc, k).type = "object"
            THEN Chosen(uc[k].fields, f, DEFAULT_CONFIG[k].fields[f])
            ELSE DEFAULT_CONFIG[k].fields[f]])
     ELSE Chosen(uc, k, DEFAULT_CONFIG[k])]

\* C22: mergeConfig(userConfig) yields the host's value for every key and
\* nested sub-key supplied with a value other than undefined and the default
\* for every other one, and getConfig() returns that result.
C22_MergePerKey ==
  [][/\ cev'.op = "mergeConfig" =>
          /\ cev'.res = PolicyMerge(userConfig)
          /\ globalConfig' = cev'.res
     /\ cev'.op = "getConfig" => cev'.res = globalConfig]_vars

\* C23: a payload that cannot be JSON-encoded is never queued: the queue
\* does not contain it, neither in memory nor in storage, and the storage
\* holds the queue as written by the last mutation.
C23_UnserializableNeverQueued ==
  /\ \A id \in Range(queue) : item[id].payload \notin cyclic
  /\ storage.present =>
       \A i \in 1..Len(storage.value) : storage.value[i].payload \notin cyclic
  /\ (~ThrowPending /\ queue # <<>>) => storage = Stored(Serialize(queue, item))

\* the step is a failed, retryable drain attempt of the item with payload p
RetryableDrainFailure(p) ==
  /\ ev'.op = "drainDone" /\ ev'.p = p
  /\ ev'.cause \notin {"none", "cors"} /\ ~ev'.cors

\* C24: an item enters the queue with retry_count 0; the retry_count of an
\* item that stays in the queue changes only by +1 and only in a step that is
\* a failed retryable drain attempt of that item.
C24_RetryCountSteps ==
  [][\A i \in 1..Len(queue') :
       LET id == queue'[i]
       IN IF id \in DOMAIN item
          THEN item'[id].retries # item[id].retries
                 => /\ item'[id].retries = item[id].retries + 1
                    /\ RetryableDrainFailure(item[id].payload)
          ELSE item'[id].retries = 0]_vars

\* a queued item has been attempted twice by the drain and failed both times,
\* while another item was enqueued in between or before
C24_Witness ==
  \E id \in Range(queue) :
    /\ item[id].retries = 2
    /\ \E other \in Range(queue) : other # id /\ item[other].retries = 0

\* C25: the durable queue and storage stay in step.  After every step that
\* saved the queue and whose write succeeded (at the first attempt, or at the
\* second one after the quota branch cut the queue), the stored array is the
\* in-memory queue: same items, same order, same retry counts; after the
\* write failed twice on quota the queue was cleared: the key is absent and
\* the queue in memory is empty.
C25_StorageInStep ==
  [][/\ ev'.save \in {"ok", "quotaOnce"}
          => storage' = Stored(Serialize(queue', item'))
     /\ ev'.save = "quotaTwice" => (storage' = Absent /\ queue' = <<>>)]_vars

C25_Witness ==
  /\ ev.op = "drainDone" /\ ev.save = "ok"
  /\ storage.present /\ Len(storage.value) > 1
  /\ \E i \in 1..Len(storage.value) : storage.value[i].retries = 1
  /\ storage.value = Serialize(queue, item)

\* the POSTs to the collector that have been issued and have not settled
InFlight ==
  Cardinality(imm) + (IF flushing.idx > 0 THEN 1 ELSE 0)
    + Cardinality({k \in Passes : pass[k].pc = "fetch"})

\* C26: at no time are two delivery attempts in flight: a new POST starts
\* only after the previous one has settled, whatever the interleaving of
\* flushes, immediate sends and drain passes started by the timer or by the
\* page becoming visible.
C26_OneAttemptInFlight == InFlight <= 1

\* pass k starts: its snapshot is the head of the queue, at most DrainLimit
\* items, in queue order
PassStartsAtHead(k) ==
  (pass[k].pc = "idle" /\ pass'[k].pc # "idle")
    => /\ Len(pass'[k].snap) = (IF Len(queue) < DrainLimit THEN Len(queue)
                                 ELSE DrainLimit)
       /\ \A i \in 1..Len(pass'[k].snap) : pass'[k].snap[i] = queue[i]
       /\ pass'[k].idx = 1

\* pass k walks its snapshot once, front to back
PassWalksInOrder(k) ==
  (pass[k].pc # "idle" /\ pass'[k].pc # "idle")
    => /\ pass'[k].snap = pass[k].snap
       /\ pass'[k].idx \in {pass[k].idx, pass[k].idx + 1}
       /\ (pass[k].pc = "fetch" /\ pass'[k].pc = "fetch")
            => pass'[k].idx = pass[k].idx
       /\ (pass'[k].pc = "fetch" /\ pass[k].pc # "fetch")
            => (pass[k].pc = "next" /\ pass'[k].idx = pass[k].idx)
       /\ (pass[k].pc = "fetch" /\ pass'[k].pc # "fetch")
            => (pass'[k].pc = "sleep" \/ pass'[k].idx = pass[k].idx + 1)
       /\ pass'[k].idx <= Len(pass[k].snap) + 1

\* pass k looks at the item its index points to
PassVisits(k) ==
  (pass[k].pc = "next" /\ pass[k].idx <= Len(pass[k].snap)
     /\ pass'[k] # pass[k])
    => LET e == pass[k].snap[pass[k].idx]
       IN IF item[e].retries >= retryAttempts
          THEN /\ ev'.op = "drainDrop" /\ ~ev'.http
               /\ pass'[k].pc = "next" /\ pass'[k].idx = pass[k].idx + 1
               /\ e \notin Range(queue')
          ELSE /\ ev'.op = "drainFetch" /\ ev'.http
               /\ ev'.p = item[e].payload
               /\ pass'[k].pc = "fetch"

\* the attempt of pass k succeeded
PassRemovesOnSuccess(k) ==
  (pass[k].pc = "fetch" /\ pass'[k].pc # "fetch" /\ ev'.cause = "none")
    => pass[k].snap[pass[k].idx] \notin Range(queue')

\* C27: a drain pass visits at most 10 items, the 10 oldest of the queue as
\* it was when the pass started, in enqueue order; a visited item whose retry
\* count has reached retryAttempts is removed without an attempt, any other
\* gets exactly one delivery attempt and is removed when that succeeds.
C27_DrainPassShape ==
  [][\A k \in Passes :
       /\ PassStartsAtHead(k) /\ PassWalksInOrder(k)
       /\ PassVisits(k) /\ PassRemovesOnSuccess(k)]_vars

C27_Witness ==
  /\ ev.op = "drainDrop"
  /\ Len(pass[1].snap) = DrainLimit /\ pass[1].idx = DrainLimit + 1
  /\ Len(queue) > DrainLimit

\* the ids in the stored array
StoredIds(st) == {st.value[i].id : i \in 1..Len(st.value)}

\* C28: when a drain attempt fails and the drain classifies the failure as
\* non-retryable, the item is removed at once (from the queue and, the write
\* having succeeded, from storage), its retry count stays as it was, and the
\* pass goes on to its next item without a backoff wait.
C28_NonRetryableRemoved ==
  [][(ev'.op = "drainDone" /\ ev'.cors)
       => \A k \in Passes :
            pass'[k] # pass[k]
              => LET e == pass[k].snap[pass[k].idx]
                 IN /\ e \notin Range(queue')
                    /\ ev'.save \in {"ok", "quotaOnce", "quotaTwice"}
                    /\ e \notin StoredIds(storage')
                    /\ item'[e].retries = item[e].retries
                    /\ pass'[k].pc = "next"
                    /\ pass'[k].idx = pass[k].idx + 1]_vars

C28_Witness ==
  /\ ev.op = "drainDone" /\ ev.cors
  /\ \E k \in Passes :
       /\ pass[k].pc = "next" /\ pass[k].idx = 2
       /\ Len(pass[k].snap) = 2
       /\ item[pass[k].snap[1]].payload = ev.p
       /\ item[pass[k].snap[1]].retries = 1
       /\ pass[k].snap[1] \notin Range(queue)
       /\ pass[k].snap[2] \in Range(queue)

\* C29: the drain path and the send path classify failures identically.  A
\* failed drain attempt is classified twice, first by sendImmediate's catch,
\* which rethrows, then by processQueue's catch: the two verdicts on the one
\* error agree.
C29_SameClassification ==
  [][ev'.op = "drainDone" => (ev'.sendCors <=> ev'.cors)]_vars

\* a drain attempt of pass k settled with a failure the drain retries
RetryableSettled(k) ==
  /\ ev'.op = "drainDone" /\ ev'.cause # "none" /\ ~ev'.cors
  /\ pass'[k] # pass[k]

\* the entry of id e in the stored array has the retry count n
StoredRetries(st, e, n) ==
  \E i \in 1..Len(st.value) : st.value[i].id = e /\ st.value[i].retries = n

\* no wait follows a success, a non-retryable failure or a drop
NoWaitOtherwise ==
  \A k \in Passes :
    (pass'[k] # pass[k] /\ ~RetryableSettled(k))
      => (pass'[k].pc # "sleep" /\ ev'.wait = 0)

PayloadsOf(b) == {b[i].payload : i \in 1..Len(b)}

\* the buffer as it is when the flush that this step starts copies it
BufferAtFlush ==
  IF ev'.op = "flushTick" THEN batch
  ELSE Append(batch, [endpoint |-> flushing'.events[Len(flushing'.events)].endpoint,
                      payload |-> ev'.p])

\* C31: a flush attempts every item that was in the buffer when it started,
\* exactly once and in the order of appending; the attempt on item i+1 is
\* made whatever the outcome of the attempt on item i, and the buffer does
\* not hold the flushed items any more.
C31_FlushWalksBuffer ==
  [][/\ (flushing.idx = 0 /\ flushing'.idx # 0)
          => /\ flushing'.events = BufferAtFlush /\ flushing'.idx = 1
             /\ batch' = <<>> /\ ev'.http
     /\ (flushing.idx # 0 /\ flushing' # flushing)
          => /\ ev'.op = "flushDone"
             /\ ev'.p = flushing.events[flushing.idx].payload
             /\ IF flushing.idx < Len(flushing.events)
                THEN /\ flushing'.events = flushing.events
                     /\ flushing'.idx = flushing.idx + 1
                     /\ ev'.http
                ELSE flushing' = IdleFlush /\ ~ev'.http
     /\ PayloadsOf(batch') \cap PayloadsOf(flushing'.events) = {}]_vars

C31_Witness ==
  /\ flushing.idx = 2 /\ Len(flushing.events) >= 2
  /\ ev.op = "flushDone" /\ ev.cause # "none"
  /\ ev.p = flushing.events[1].payload
  /\ batch # <<>>

\* every payload the batch buffer can hold
BufferedPayloads == (1 - batchSize)..MaxSends

\* the POST for payload p has been issued by the running flush
Attempting(p) ==
  flushing.idx > 0 /\ flushing.events[flushing.idx].payload = p

\* C32: with the batch timer ticking and every request settling, every
\* payload appended to the batch buffer is eventually attempted, also when
\* the flush its append should have started was skipped because another one
\* was running; and the in-progress flag is always eventually cleared.
C32_BufferedEventuallyAttempted ==
  /\ \A p \in BufferedPayloads : (p \in PayloadsOf(batch)) ~> Attempting(p)
  /\ isProcessing ~> ~isProcessing

C32_Witness ==
  /\ isProcessing /\ Len(batch) >= batchSize
  /\ flushing.idx = Len(flushing.events)

\* the queue as the mutation of this step left it, before it was saved
MutatedQueue ==
  CASE ev'.op \in {"sendDone", "flushDone"} ->
         Append(IF Len(queue) >= maxQueueSize
                THEN SubSeq(queue, (maxQueueSize * EvictPercent) \div 100 + 1,
                            Len(queue))
                ELSE queue, ev'.p)
    [] ev'.op = "drainDrop" \/ (ev'.op = "drainDone" /\ (ev'.cause = "none" \/ ev'.cors)) ->
         SelectSeq(queue, LAMBDA e : e # ev'.p)
    [] OTHER -> queue

\* the last n entries of s
LastOf(s, n) ==
  IF Len(s) <= n THEN s ELSE [i \in 1..n |-> s[Len(s) - n + i]]

\* C33: quota failures of the queue's persistence are handled by trimming
\* and do not surface.  When the write fails on quota the queue is cut to its
\* 50 most recently enqueued items and written again; when that fails too
\* the queue is emptied in memory and its key removed; either way the call
\* that saved returns normally.
C33_QuotaTrimming ==
  [][/\ ev'.save = "quotaOnce"
          => /\ queue' = LastOf(MutatedQueue, 50)
             /\ storage' = Stored(Serialize(queue', item'))
     /\ ev'.save = "quotaTwice" => (queue' = <<>> /\ storage' = Absent)
     /\ ev'.save \in {"quotaOnce", "quotaTwice"} => ev'.res # "rejected"]_vars

C33_Witness ==
  /\ ev.save = "quotaOnce" /\ ev.op = "sendDone"
  /\ Len(queue) = 50 /\ queue[50] = ev.p
  /\ storage = Stored(Serialize(queue, item))

\* the payloads the client holds or has delivered: buffered, in flight on the
\* send path, in the running flush, queued, or answered with a 2xx
HeldPayloads ==
  PayloadsOf(batch) \cup {c.p : c \in imm}
    \cup {flushing.events[i].payload :
            i \in {j \in 1..Len(flushing.events) : j >= flushing.idx}}
    \cup {item[queue[i]].payload : i \in 1..Len(queue)}
    \cup {p \in DOMAIN delivered : delivered[p] > 0}

\* the step dropped payload p for a documented reason
DocumentedDrop(p) ==
  \/ ev'.p = p /\ ev'.cors
  \/ ev'.p = p /\ ev'.op = "sendDone" /\ ~ev'.qof /\ ev'.cause # "none"
  \/ ev'.p = p /\ ev'.op = "drainDrop"
  \/ /\ ev'.op \in {"sendDone", "flushDone"} /\ ev'.save # "none"
     /\ Len(queue) >= maxQueueSize
     /\ \E i \in 1..((maxQueueSize * 25) \div 100) : item[queue[i]].payload = p
  \/ /\ ev'.save \in {"quotaOnce", "quotaTwice"}
     /\ (p = ev'.p \/ \E i \in 1..Len(queue) : item[queue[i]].payload = p)

\* C34: no accepted payload disappears silently.  A payload accepted by a
\* send() outside test mode is held from then on (buffered, being attempted,
\* queued) or delivered, and leaves only by a documented drop: a failure
\* classified as CORS, queueOnFailure = false, max retries reached, capacity
\* eviction or quota trimming.
C34_NoSilentLoss ==
  [][/\ (ev'.op \in SendOps /\ ~testMode /\ ev'.p # 0) => ev'.p \in HeldPayloads'
     /\ \A p \in HeldPayloads \ HeldPayloads' : DocumentedDrop(p)]_vars

C34_Witness ==
  /\ ev.op = "drainDrop" /\ ev.p > 0
  /\ ev.p \notin HeldPayloads
  /\ queue # <<>>

\* C35: every queued item has 0 <= retry_count <= retryAttempts, whatever
\* the interleaving of drain passes (each failed attempt counts one, so the
\* drain then makes at most retryAttempts attempts for one item).
C35_RetriesWithinCeiling ==
  \A i \in 1..Len(queue) :
    item[queue[i]].retries >= 0 /\ item[queue[i]].retries <= retryAttempts

\* C36: queueOnFailure is honoured on both paths: when every send() is made
\* with queueOnFailure = false, immediate or batched, nothing is ever placed
\* in the durable queue.
C36_OptOutNeverQueued == queue = <<>> /\ ~storage.present

\* C37: a failed delivery attempt of the client itself creates no tracking
\* event: with API-error tracking on and the fetch wrapper installed, a POST
\* to the collector that fails does not call trackServiceError, so nothing
\* is appended to the batch buffer by the settling of a POST.
C37_FailureTracksNothing ==
  [][ev'.op \in {"flushDone", "drainDone"}
       => (nextSerial' = nextSerial /\ Len(batch') <= Len(batch))]_vars

\* C38: no queued item is stranded in, or overwritten in storage by, a
\* superseded client instance: every item a replaced instance holds in its
\* queue is known to the current instance (whose drain passes are the only
\* ones that run), and every item the current instance has queued is in the
\* persisted array (all writes succeeding).
C38_NoStrandedItems ==
  /\ Range(old.queue) \subseteq DOMAIN item
  /\ Range(queue) \subseteq StoredIds(storage)

\* C39: updateConfig(updates) changes only what updates mentions: a
\* top-level key absent from updates, and a sub-key absent from a supplied
\* nested object, keeps the value it had in the effective configuration
\* before the call.
C39_UpdateKeepsTheRest ==
  [][cev'.op = "updateConfig" =>
       \A k \in DOMAIN DEFAULT_CONFIG :
         IF k \notin DOMAIN cev'.res
         THEN globalConfig'[k] = globalConfig[k]
         ELSE k \in NestedKeys /\ cev'.res[k].type = "object" =>
                \A f \in SubKeys(k) \ DOMAIN cev'.res[k].fields :
                  Get(globalConfig'[k].fields, f) = Get(globalConfig[k].fields, f)]_vars

\* C40: useAutoTracking restores the previous configuration on unmount:
\* whatever the order of the mounts and unmounts, once every component is
\* unmounted the effective autoTrack configuration is the one in effect
\* before the first mount (here the one the module was loaded with).
C40_UnmountRestores ==
  (\A h \in Hooks : ~hooks[h].mounted)
    => globalConfig["autoTrack"] = DEFAULT_CONFIG["autoTrack"]

====
